---- MODULE Spec2Model ----
(***************************************************************************)
(* The Markdown chunking pipeline of the ingest worker:                    *)
(*   TokenAwareChunker.chunk  (pipelines/chunker.py)                       *)
(*   filter_chunks            (pipelines/chunk_filter.py)                  *)
(* Texts are TLA+ strings, handled character by character the way the      *)
(* Python code handles them (strip, join, slices, the regular expressions).*)
(* TokenCounter is the heuristic counter (no tokenizer loaded).            *)
(***************************************************************************)
EXTENDS Integers, Sequences, FiniteSets, TLC

\* Python's None for an Optional[str]: a string no stripped title or joined
\* path can equal (it starts with a tab).
None == "\tNone"

\* Python's None for Optional[int] heading_level (levels are 1..6).
NoLevel == 0

Max(a, b) == IF a >= b THEN a ELSE b

Min(a, b) == IF a <= b THEN a ELSE b

\* ------------------------------------------------------------------ strings

Char(s, i) == IF i >= 1 /\ i <= Len(s) THEN SubSeq(s, i, i) ELSE ""

\* the first index from i on where Hit holds, Len(s) + 1 if there is none
FirstWhere(s, i, Hit(_, _)) ==
    CHOOSE j \in i..(Len(s) + 1) :
        /\ j > Len(s) \/ Hit(s, j)
        /\ \A k \in i..(j - 1) : ~Hit(s, k)

IsSpace(c) == c \in {" ", "\n", "\t", "\r"}

IsDigit(c) == c \in {"0", "1", "2", "3", "4", "5", "6", "7", "8", "9"}

RECURSIVE FirstNonSpace(_, _)
\* index of the first non-whitespace character at or after i, Len(s)+1 if none
FirstNonSpace(s, i) ==
    IF i > Len(s) THEN Len(s) + 1
    ELSE IF IsSpace(Char(s, i)) THEN FirstNonSpace(s, i + 1) ELSE i

RECURSIVE LastNonSpace(_, _)
\* index of the last non-whitespace character at or before j, 0 if none
LastNonSpace(s, j) ==
    IF j < 1 THEN 0
    ELSE IF IsSpace(Char(s, j)) THEN LastNonSpace(s, j - 1) ELSE j

\* variant of Strip: the string as it is
Unstripped(s) == s

\* str.strip()
Strip(s) ==
    LET a == FirstNonSpace(s, 1)
        b == LastNonSpace(s, Len(s))
    IN  IF a > b THEN "" ELSE SubSeq(s, a, b)

\* str.startswith
StartsWith(s, p) == Len(s) >= Len(p) /\ SubSeq(s, 1, Len(p)) = p

\* p in s
Contains(s, p) == \E i \in 1..(Len(s) - Len(p) + 1) : SubSeq(s, i, i + Len(p) - 1) = p

RECURSIVE Join(_, _)
\* sep.join(parts)
Join(parts, sep) ==
    IF parts = <<>> THEN ""
    ELSE IF Len(parts) = 1 THEN parts[1]
    ELSE parts[1] \o sep \o Join(Tail(parts), sep)

\* a line break of str.splitlines() stands at index j
IsLineBreak(s, j) == Char(s, j) \in {"\n", "\r"}

RECURSIVE SplitLinesFrom(_, _, _)
\* the lines of s from index i on, after the lines acc: "\n", "\r" and "\r\n" end a line
SplitLinesFrom(s, i, acc) ==
    IF i > Len(s) THEN acc
    ELSE LET j == FirstWhere(s, i, IsLineBreak)
         IN  SplitLinesFrom(s, IF Char(s, j) = "\r" /\ Char(s, j + 1) = "\n" THEN j + 2
                               ELSE j + 1,
                            Append(acc, SubSeq(s, i, j - 1)))

\* str.splitlines(): no empty last line after a final line break
SplitLines(s) == SplitLinesFrom(s, 1, <<>>)

UpperChars ==
    <<"A", "B", "C", "D", "E", "F", "G", "H", "I", "J", "K", "L", "M",
      "N", "O", "P", "Q", "R", "S", "T", "U", "V", "W", "X", "Y", "Z">>

LowerChars ==
    <<"a", "b", "c", "d", "e", "f", "g", "h", "i", "j", "k", "l", "m",
      "n", "o", "p", "q", "r", "s", "t", "u", "v", "w", "x", "y", "z">>

UpperSet == {UpperChars[k] : k \in 1..26}

LowerSet == {LowerChars[k] : k \in 1..26}

LowerMap == [c \in UpperSet |-> LowerChars[CHOOSE k \in 1..26 : UpperChars[k] = c]]

LowerChar(c) == IF c \in UpperSet THEN LowerMap[c] ELSE c

RECURSIVE LowerFrom(_, _, _)
\* the characters lo..hi of s in lower case
LowerFrom(s, lo, hi) ==
    IF lo > hi THEN ""
    ELSE IF lo = hi THEN LowerChar(Char(s, lo))
    ELSE LET mid == (lo + hi) \div 2
         IN  LowerFrom(s, lo, mid) \o LowerFrom(s, mid + 1, hi)

\* str.lower()
Lower(s) == LowerFrom(s, 1, Len(s))

\* a regular expression's \w
IsWordChar(c) == IsDigit(c) \/ c = "_" \/ c \in UpperSet \/ c \in LowerSet

\* ------------------------------------------------------------ TokenCounter

\* TokenCounter.count, heuristic fallback
Count(text) ==
    LET t == Strip(text)
    IN  IF t = "" THEN 0 ELSE Max(1, Len(t) \div 4)

\* TokenCounter.tail_text, heuristic fallback: text[-n:] with n = max(0, 4*tail_tokens);
\* text[-0:] is the whole text
TailText(text, tail_tokens) ==
    LET n == Max(0, tail_tokens * 4)
    IN  IF n = 0 \/ n >= Len(text) THEN text
        ELSE SubSeq(text, Len(text) - n + 1, Len(text))

\* ------------------------------------------------- TokenAwareChunker: blocks

\* _Block; overlap marks the synthetic block built at the overlap seeding
Block(text, tokens, sp, pp, bt, lvl) ==
    [text |-> text, token_count |-> tokens, section_path |-> sp,
     parent_section_path |-> pp, block_type |-> bt, heading_level |-> lvl,
     overlap |-> FALSE]

RECURSIVE Titles(_)
Titles(stack) == IF stack = <<>> THEN <<>> ELSE <<stack[1].title>> \o Titles(Tail(stack))

\* TokenAwareChunker._section_path
SectionPath(stack) == IF stack = <<>> THEN None ELSE Join(Titles(stack), " > ")

\* TokenAwareChunker._parent_section_path
ParentSectionPath(stack, psl) ==
    IF stack = <<>> THEN None
    ELSE LET kept == SelectSeq(stack, LAMBDA e : e.level <= psl)
         IN  Join(Titles(IF kept = <<>> THEN <<stack[1]>> ELSE kept), " > ")

RECURSIVE LeadingHashes(_, _)
LeadingHashes(line, i) == IF Char(line, i) = "#" THEN LeadingHashes(line, i + 1) ELSE i - 1

\* re.match(r"^(#{1,6})\s+(.+?)\s*$", line): the level, 0 when the line is no heading
HeadingLevel(line) ==
    LET n == LeadingHashes(line, 1)
    IN  IF n >= 1 /\ n <= 6 /\ Len(line) >= n + 2 /\ IsSpace(Char(line, n + 1))
        THEN n ELSE 0

\* m.group(2).strip()
HeadingTitle(line) == Strip(SubSeq(line, LeadingHashes(line, 1) + 1, Len(line)))

RECURSIVE PopDeeper(_, _)
\* variant of PopStack: an entry of the heading's own level stays
PopDeeper(stack, level) ==
    IF stack # <<>> /\ stack[Len(stack)].level > level
    THEN PopDeeper(SubSeq(stack, 1, Len(stack) - 1), level)
    ELSE stack

RECURSIVE PopStack(_, _)
\* while section_stack and section_stack[-1][0] >= level: section_stack.pop()
PopStack(stack, level) ==
    IF stack # <<>> /\ stack[Len(stack)].level >= level
    THEN PopStack(SubSeq(stack, 1, Len(stack) - 1), level)
    ELSE stack

\* the heading branch's stack update
PushHeading(stack, level, title) ==
    Append(PopStack(stack, level), [level |-> level, title |-> title])

RECURSIVE DigitsEnd(_, _)
DigitsEnd(line, i) == IF IsDigit(Char(line, i)) THEN DigitsEnd(line, i + 1) ELSE i

\* re.match(r"^(\s*[-*+]\s+|\s*\d+\.\s+)", line)
IsListStart(line) ==
    LET k == FirstNonSpace(line, 1)
        d == DigitsEnd(line, k)
    IN  \/ Char(line, k) \in {"-", "*", "+"} /\ IsSpace(Char(line, k + 1))
        \/ d > k /\ Char(line, d) = "." /\ IsSpace(Char(line, d + 1))

\* re.match(r"^(\s+|\s*[-*+]\s+|\s*\d+\.\s+)", nxt)
IsListContinuation(line) == IsSpace(Char(line, 1)) \/ IsListStart(line)

\* the backquote character, written ^ in this module's texts (a string literal
\* of the module cannot hold a backquote)
BackQuote == "^"

IsFence(stripped) ==
    \/ StartsWith(stripped, BackQuote \o BackQuote \o BackQuote)
    \/ StartsWith(stripped, "~~~")

RECURSIVE FenceEndAnyMarker(_, _, _)
\* variant of FenceEnd: a line that starts with either fence marker closes
FenceEndAnyMarker(lines, i, fence) ==
    IF i > Len(lines) THEN Len(lines) + 1
    ELSE IF IsFence(Strip(lines[i])) THEN i
    ELSE FenceEndAnyMarker(lines, i + 1, fence)

RECURSIVE FenceEnd(_, _, _)
\* the index of the closing fence line at or after i, Len(lines)+1 when unterminated
FenceEnd(lines, i, fence) ==
    IF i > Len(lines) THEN Len(lines) + 1
    ELSE IF StartsWith(Strip(lines[i]), fence) THEN i
    ELSE FenceEnd(lines, i + 1, fence)

RECURSIVE TableEnd(_, _)
\* the first index at or after i whose line does not start with "|"
TableEnd(lines, i) ==
    IF i <= Len(lines) /\ StartsWith(Strip(lines[i]), "|") THEN TableEnd(lines, i + 1) ELSE i

IsTableStart(lines, i) ==
    /\ StartsWith(Strip(lines[i]), "|")
    /\ i + 1 <= Len(lines)
    /\ StartsWith(Strip(lines[i + 1]), "|")
    /\ Contains(Strip(lines[i + 1]), "---")

RECURSIVE ListEnd(_, _)
\* the first index at or after i that is blank or no continuation
ListEnd(lines, i) ==
    IF i <= Len(lines) /\ Strip(lines[i]) # "" /\ IsListContinuation(lines[i])
    THEN ListEnd(lines, i + 1) ELSE i

\* flush_para: the blocks after flushing the paragraph accumulator
FlushPara(para, stack, blocks, psl) ==
    IF para = <<>> THEN blocks
    ELSE LET s == Strip(Join(para, "\n"))
         IN  IF s = "" THEN blocks
             ELSE Append(blocks, Block(s, Count(s), SectionPath(stack),
                                       ParentSectionPath(stack, psl), "text", NoLevel))

\* a block of the consumed lines lines[a..b] (code, table, list)
SpanBlock(lines, a, b, stack, psl, bt) ==
    LET s == Strip(Join(SubSeq(lines, a, b), "\n"))
    IN  Block(s, Count(s), SectionPath(stack), ParentSectionPath(stack, psl), bt, NoLevel)

\* where the while loop of _iter_blocks stands
Scan(i, para, stack, blocks) == [i |-> i, para |-> para, stack |-> stack, blocks |-> blocks]

\* one iteration of the while loop of _iter_blocks, at line i
IterStep(lines, i, para, stack, blocks, psl) ==
    LET line == lines[i]
        stripped == Strip(line)
        flushed == FlushPara(para, stack, blocks, psl)
    IN  IF stripped = "" THEN Scan(i + 1, <<>>, stack, flushed)
        ELSE IF HeadingLevel(line) > 0 THEN
            LET level == HeadingLevel(line)
                st == PushHeading(stack, level, HeadingTitle(line))
                b == Block(stripped, Count(stripped), SectionPath(st),
                           ParentSectionPath(st, psl), "heading", level)
            IN  Scan(i + 1, <<>>, st, Append(flushed, b))
        ELSE IF stripped = "[IMAGE]" THEN
            LET b == Block("[IMAGE]", 1, SectionPath(stack),
                           ParentSectionPath(stack, psl), "image", NoLevel)
            IN  Scan(i + 1, <<>>, stack, Append(flushed, b))
        ELSE IF IsFence(stripped) THEN
            LET e == FenceEnd(lines, i + 1, SubSeq(stripped, 1, 3))
                last == Min(e, Len(lines))
            IN  Scan(last + 1, <<>>, stack,
                     Append(flushed, SpanBlock(lines, i, last, stack, psl, "code")))
        ELSE IF IsTableStart(lines, i) THEN
            LET e == TableEnd(lines, i + 2)
            IN  Scan(e, <<>>, stack,
                     Append(flushed, SpanBlock(lines, i, e - 1, stack, psl, "table")))
        ELSE IF IsListStart(line) THEN
            LET e == ListEnd(lines, i + 1)
            IN  Scan(e, <<>>, stack,
                     Append(flushed, SpanBlock(lines, i, e - 1, stack, psl, "list")))
        ELSE Scan(i + 1, Append(para, line), stack, blocks)

RECURSIVE IterBlocksFrom(_, _, _, _, _, _)
\* the while loop of _iter_blocks from line i, and the final flush_para
IterBlocksFrom(lines, i, para, stack, blocks, psl) ==
    IF i > Len(lines) THEN FlushPara(para, stack, blocks, psl)
    ELSE LET n == IterStep(lines, i, para, stack, blocks, psl)
         IN  IterBlocksFrom(lines, n.i, n.para, n.stack, n.blocks, psl)

\* TokenAwareChunker._iter_blocks
IterBlocks(text, psl) == IterBlocksFrom(SplitLines(text), 1, <<>>, <<>>, <<>>, psl)

\* ------------------------------------------- TokenAwareChunker: oversize split

RECURSIVE NewlinesEnd(_, _)
NewlinesEnd(s, i) == IF Char(s, i) = "\n" THEN NewlinesEnd(s, i + 1) ELSE i

\* a run of two or more newlines starts at index j
IsParaBreak(s, j) == Char(s, j) = "\n" /\ Char(s, j + 1) = "\n"

RECURSIVE SplitParasFrom(_, _, _)
\* re.split(r"\n{2,}", s), from index i on, after the parts acc
SplitParasFrom(s, i, acc) ==
    LET j == FirstWhere(s, i, IsParaBreak)
    IN  IF j > Len(s) THEN Append(acc, SubSeq(s, i, Len(s)))
        ELSE SplitParasFrom(s, NewlinesEnd(s, j), Append(acc, SubSeq(s, i, j - 1)))

RECURSIVE StripNonEmpty(_)
\* [p.strip() for p in parts if p.strip()]
StripNonEmpty(parts) ==
    IF parts = <<>> THEN <<>>
    ELSE (IF Strip(parts[1]) = "" THEN <<>> ELSE <<Strip(parts[1])>>)
         \o StripNonEmpty(Tail(parts))

\* [p.strip() for p in re.split(r"\n{2,}", block.strip()) if p.strip()]
SplitParas(block) == StripNonEmpty(SplitParasFrom(Strip(block), 1, <<>>))

\* whitespace after a ".", "!" or "?" starts at index j
IsSentenceBreak(s, j) == IsSpace(Char(s, j)) /\ Char(s, j - 1) \in {".", "!", "?"}

RECURSIVE SplitSentencesFrom(_, _, _)
SplitSentencesFrom(s, i, acc) ==
    LET j == FirstWhere(s, i, IsSentenceBreak)
    IN  IF j > Len(s) THEN Append(acc, SubSeq(s, i, Len(s)))
        ELSE SplitSentencesFrom(s, FirstNonSpace(s, j), Append(acc, SubSeq(s, i, j - 1)))

\* re.split(r"(?<=[.!?])\s+", p)
SplitSentences(p) == SplitSentencesFrom(p, 1, <<>>)

RECURSIVE SlicesTwiceAsWide(_, _, _)
\* variant of HardSlices: windows of 2 * step characters
SlicesTwiceAsWide(s, j, step) ==
    IF j >= Len(s) THEN <<>>
    ELSE LET piece == Strip(SubSeq(s, j + 1, Min(j + 2 * step, Len(s))))
         IN  (IF piece = "" THEN <<>> ELSE <<piece>>)
             \o SlicesTwiceAsWide(s, j + 2 * step, step)

RECURSIVE HardSlices(_, _, _)
\* for j in range(j0, len(s), step): piece = s[j : j + step].strip(); kept if non-empty
HardSlices(s, j, step) ==
    IF j >= Len(s) THEN <<>>
    ELSE LET piece == Strip(SubSeq(s, j + 1, Min(j + step, Len(s))))
         IN  (IF piece = "" THEN <<>> ELSE <<piece>>) \o HardSlices(s, j + step, step)

RECURSIVE SentenceLoop(_, _, _, _, _)
\* the loop over the sentences of one paragraph, and the final "if cur"
SentenceLoop(sentences, k, cur, out, max_tokens) ==
    IF k > Len(sentences) THEN (IF cur = "" THEN out ELSE Append(out, cur))
    ELSE
    LET s == sentences[k]
        cand == IF cur = "" THEN s ELSE Strip(cur \o " " \o s)
        out1 == IF cur = "" THEN out ELSE Append(out, cur)
    IN  IF s = "" THEN SentenceLoop(sentences, k + 1, cur, out, max_tokens)
        ELSE IF Count(cand) <= max_tokens
             THEN SentenceLoop(sentences, k + 1, cand, out, max_tokens)
        ELSE IF Count(s) <= max_tokens
             THEN SentenceLoop(sentences, k + 1, s, out1, max_tokens)
        ELSE SentenceLoop(sentences, k + 1, "",
                          out1 \o HardSlices(s, 0, Max(1, max_tokens * 4)), max_tokens)

RECURSIVE SplitParts(_, _)
SplitParts(parts, max_tokens) ==
    IF parts = <<>> THEN <<>>
    ELSE (IF Count(parts[1]) <= max_tokens THEN <<parts[1]>>
          ELSE SentenceLoop(SplitSentences(parts[1]), 1, "", <<>>, max_tokens))
         \o SplitParts(Tail(parts), max_tokens)

\* TokenAwareChunker._split_big_text
SplitBigText(block, max_tokens) == SplitParts(SplitParas(block), max_tokens)

\* variant of PartBlocks: only the first part of a split block is kept
FirstPartBlock(parts, b) ==
    IF parts = <<>> THEN <<>>
    ELSE <<Block(parts[1], Count(parts[1]), b.section_path, b.parent_section_path,
                 b.block_type, NoLevel)>>

RECURSIVE PartBlocks(_, _)
PartBlocks(parts, b) ==
    IF parts = <<>> THEN <<>>
    ELSE <<Block(parts[1], Count(parts[1]), b.section_path, b.parent_section_path,
                 b.block_type, NoLevel)>> \o PartBlocks(Tail(parts), b)

RECURSIVE Expand(_, _)
\* chunk(): the expansion of the oversized blocks
Expand(bs, max_tokens) ==
    IF bs = <<>> THEN <<>>
    ELSE (IF bs[1].token_count <= max_tokens THEN <<bs[1]>>
          ELSE PartBlocks(SplitBigText(bs[1].text, max_tokens), bs[1]))
         \o Expand(Tail(bs), max_tokens)

\* ----------------------------------------------- TokenAwareChunker: assembly

\* Python truthiness of an Optional[str]
Truthy(x) == x # None /\ x # ""

\* Python's "a or b" on Optional[str]
OrElse(a, b) == IF Truthy(a) THEN a ELSE b

RECURSIVE Texts(_)
Texts(bs) == IF bs = <<>> THEN <<>> ELSE <<bs[1].text>> \o Texts(Tail(bs))

RECURSIVE AdjacentSectionPaths(_, _)
\* flush(): section_paths, a path appended unless it repeats the last one appended
AdjacentSectionPaths(bs, acc) ==
    IF bs = <<>> THEN acc
    ELSE AdjacentSectionPaths(Tail(bs),
            IF Truthy(bs[1].section_path)
               /\ (acc = <<>> \/ acc[Len(acc)] # bs[1].section_path)
            THEN Append(acc, bs[1].section_path) ELSE acc)

RECURSIVE AdjacentBlockTypes(_, _)
\* flush(): block_types, a type appended unless it repeats the last one appended
AdjacentBlockTypes(bs, acc) ==
    IF bs = <<>> THEN acc
    ELSE AdjacentBlockTypes(Tail(bs),
            IF acc = <<>> \/ acc[Len(acc)] # bs[1].block_type
            THEN Append(acc, bs[1].block_type) ELSE acc)

\* Chunk
MkChunk(index, text, tokens, metadata) ==
    [index |-> index, text |-> text, token_count |-> tokens, metadata |-> metadata]

\* flush(): the chunk of the accumulator bs
FlushChunk(bs, index, parent) ==
    LET joined == Strip(Join(Texts(bs), "\n\n"))
        sps == AdjacentSectionPaths(bs, <<>>)
    IN  MkChunk(index, joined, Count(joined),
                [section_paths |-> sps,
                 primary_section_path |-> IF sps = <<>> THEN None ELSE sps[1],
                 parent_section_path |-> parent,
                 block_types |-> AdjacentBlockTypes(bs, <<>>)])

\* flush() appends a chunk iff the accumulator is non-empty and its text counts >= 1
Flushes(bs) == bs # <<>> /\ Count(Strip(Join(Texts(bs), "\n\n"))) >= 1

\* the chunk list after flush()
FlushInto(cs, bs, index, parent) ==
    IF Flushes(bs) THEN Append(cs, FlushChunk(bs, index, parent)) ELSE cs

\* the heading test that opens a new parent section
IsBoundary(b, psl) ==
    b.block_type = "heading" /\ b.heading_level # NoLevel /\ b.heading_level <= psl

\* the synthetic block holding the overlap tail
OverlapBlock(tail, parent) ==
    [text |-> tail, token_count |-> Count(tail), section_path |-> None,
     parent_section_path |-> parent, block_type |-> "text", heading_level |-> NoLevel,
     overlap |-> TRUE]

RECURSIVE OrderedUnique(_, _)
\* list(dict.fromkeys(xs))
OrderedUnique(xs, acc) ==
    IF xs = <<>> THEN acc
    ELSE OrderedUnique(Tail(xs),
            IF \E k \in 1..Len(acc) : acc[k] = xs[1] THEN acc ELSE Append(acc, xs[1]))

\* the chunk that replaces prev when c is merged into it
MergedChunk(prev, c) ==
    LET new_text == prev.text \o "\n\n" \o c.text
    IN  MkChunk(prev.index, new_text, Count(new_text),
                [section_paths |-> OrderedUnique(prev.metadata.section_paths
                                                 \o c.metadata.section_paths, <<>>),
                 primary_section_path |-> OrElse(prev.metadata.primary_section_path,
                                                 c.metadata.primary_section_path),
                 parent_section_path |-> OrElse(prev.metadata.parent_section_path,
                                                c.metadata.parent_section_path),
                 block_types |-> OrderedUnique(prev.metadata.block_types
                                               \o c.metadata.block_types, <<>>)])

\* variant of MergesIntoPrev: the small-chunk merge joins nothing
MergesNever(merged, c, min_tokens) == FALSE

\* the test of the small-chunk merge
MergesIntoPrev(merged, c, min_tokens) ==
    /\ merged # <<>>
    /\ c.token_count < min_tokens
    /\ merged[Len(merged)].metadata.parent_section_path = c.metadata.parent_section_path

RECURSIVE MergeSmall(_, _, _)
\* chunk(): "merge small tail chunks"
MergeSmall(cs, merged, min_tokens) ==
    IF cs = <<>> THEN merged
    ELSE MergeSmall(Tail(cs),
            IF MergesIntoPrev(merged, cs[1], min_tokens)
            THEN Append(SubSeq(merged, 1, Len(merged) - 1),
                        MergedChunk(merged[Len(merged)], cs[1]))
            ELSE Append(merged, cs[1]),
            min_tokens)

RECURSIVE MergeSmallLog(_, _, _, _, _)
\* history: the accumulators joined into each chunk of MergeSmall's result
MergeSmallLog(cs, logs, merged, mlogs, min_tokens) ==
    IF cs = <<>> THEN mlogs
    ELSE IF MergesIntoPrev(merged, cs[1], min_tokens)
    THEN MergeSmallLog(Tail(cs), Tail(logs),
            Append(SubSeq(merged, 1, Len(merged) - 1),
                   MergedChunk(merged[Len(merged)], cs[1])),
            Append(SubSeq(mlogs, 1, Len(mlogs) - 1),
                   [blocks |-> mlogs[Len(mlogs)].blocks \o logs[1].blocks,
                    joined |-> mlogs[Len(mlogs)].joined + 1]),
            min_tokens)
    ELSE MergeSmallLog(Tail(cs), Tail(logs), Append(merged, cs[1]),
                       Append(mlogs, logs[1]), min_tokens)

\* variant of Reindex: the chunks keep the indices they have
KeepIndex(cs) == cs

\* [Chunk(index=i, ...) for i, c in enumerate(cs)]
Reindex(cs) ==
    [i \in 1..Len(cs) |-> MkChunk(i - 1, cs[i].text, cs[i].token_count, cs[i].metadata)]

\* ------------------------------------------------------------ chunk_filter

\* _FRONT_MATTER_KEYWORDS
FrontMatterKeywords ==
    {"acknowledgements", "foreword", "publication", "publication team",
     "offices of the publication division", "all rights reserved", "isbn", "pd ",
     "first edition", "reprinted", "revised edition", "textbook in",
     "national council of educational research", "textbook development committee",
     "chairperson", "chief advisor", "advisors", "team members", "member-coordinators"}

\* the phrases of _BOILERPLATE_PATTERNS that stand between two \b
BoilerplatePhrases ==
    {"all rights reserved", "no part of this publication may be reproduced",
     "printed on", "published at"}

\* re.search(r"\b<phrase>\b", t), the phrase beginning and ending with a word character
HasPhrase(t, phrase) ==
    \E i \in 1..(Len(t) - Len(phrase) + 1) :
        /\ SubSeq(t, i, i + Len(phrase) - 1) = phrase
        /\ ~IsWordChar(Char(t, i - 1))
        /\ ~IsWordChar(Char(t, i + Len(phrase)))

\* re.search(r"\bphone\s*:\b", t)
HasPhone(t) ==
    \E i \in 1..(Len(t) - 4) :
        /\ SubSeq(t, i, i + 4) = "phone"
        /\ ~IsWordChar(Char(t, i - 1))
        /\ LET k == FirstNonSpace(t, i + 5)
           IN  Char(t, k) = ":" /\ IsWordChar(Char(t, k + 1))

\* _sha: SHA-256 taken as injective
Sha(t) == <<"sha256", t>>

\* _looks_like_heading_only
LooksLikeHeadingOnly(t) == StartsWith(Strip(t), "#") /\ ~Contains(Strip(t), "\n")

\* _is_image_only
IsImageOnly(t) == Strip(t) = "[IMAGE]"

\* _section_tag
SectionTag(parent) == Lower(Strip(OrElse(parent, "")))

\* _match_any_keyword
MatchAnyKeyword(hay, keywords) ==
    LET h == Lower(hay)
    IN  \E k \in keywords : Contains(h, k)

\* _has_boilerplate
HasBoilerplate(text) ==
    LET t == Lower(text)
    IN  \/ \E ph \in BoilerplatePhrases : HasPhrase(t, ph)
        \/ HasPhone(t)

\* variant of ComputeQualityScore: the bonus only above 200 tokens
ScoreBonusAbove(token_count, tags) ==
    LET score == 100
                 - (IF "front_matter" \in tags THEN 70 ELSE 0)
                 - (IF "boilerplate" \in tags THEN 60 ELSE 0)
                 - (IF "image_only" \in tags THEN 70 ELSE 0)
                 - (IF "duplicate" \in tags THEN 100 ELSE 0)
                 - (IF "low_signal" \in tags THEN 30 ELSE 0)
                 + (IF token_count > 200 THEN 5 ELSE 0)
    IN  Max(0, Min(100, score))

\* _compute_quality_score, in hundredths
ComputeQualityScore(token_count, tags) ==
    LET score == 100
                 - (IF "front_matter" \in tags THEN 70 ELSE 0)
                 - (IF "boilerplate" \in tags THEN 60 ELSE 0)
                 - (IF "image_only" \in tags THEN 70 ELSE 0)
                 - (IF "duplicate" \in tags THEN 100 ELSE 0)
                 - (IF "low_signal" \in tags THEN 30 ELSE 0)
                 + (IF token_count >= 200 THEN 5 ELSE 0)
    IN  Max(0, Min(100, score))

\* the heading merge's token count
MergedTokens(merged_text, c, n) ==
    Max(Len(merged_text) \div 4, c.token_count + n.token_count)

RECURSIVE MergeHeadingFrom(_, _, _)
\* the while loop of _merge_heading_with_next
MergeHeadingFrom(cs, i, out) ==
    IF i > Len(cs) THEN out
    ELSE IF /\ i + 1 <= Len(cs)
            /\ LooksLikeHeadingOnly(cs[i].text)
            /\ cs[i].metadata.parent_section_path = cs[i + 1].metadata.parent_section_path
    THEN LET c == cs[i]
             n == cs[i + 1]
             merged_text == Strip(c.text) \o "\n\n" \o Strip(n.text)
             merged_meta == n.metadata @@ [merged_heading |-> TRUE]
         IN  MergeHeadingFrom(cs, i + 2,
                 Append(out, MkChunk(c.index, merged_text, MergedTokens(merged_text, c, n),
                                     merged_meta)))
    ELSE MergeHeadingFrom(cs, i + 1, Append(out, cs[i]))

\* _merge_heading_with_next
MergeHeadingWithNext(cs) == Reindex(MergeHeadingFrom(cs, 1, <<>>))

\* variant of TagsOf: the seen hashes are not consulted
TagsOfNoDuplicate(c, cfg, seen) ==
    LET meta == c.metadata
        parent == OrElse(meta.parent_section_path, OrElse(meta.primary_section_path, ""))
    IN  (IF cfg.drop_front_matter /\ MatchAnyKeyword(SectionTag(parent), FrontMatterKeywords)
         THEN {"front_matter"} ELSE {})
        \cup (IF cfg.drop_boilerplate /\ HasBoilerplate(c.text) THEN {"boilerplate"} ELSE {})
        \cup (IF cfg.drop_image_only /\ IsImageOnly(c.text) THEN {"image_only"} ELSE {})
        \cup (IF c.token_count < cfg.min_tokens THEN {"low_signal"} ELSE {})

\* the tags filter_chunks gives chunk c, seen being the hashes of the chunks kept so far
TagsOf(c, cfg, seen) ==
    LET meta == c.metadata
        parent == OrElse(meta.parent_section_path, OrElse(meta.primary_section_path, ""))
    IN  (IF cfg.drop_front_matter /\ MatchAnyKeyword(SectionTag(parent), FrontMatterKeywords)
         THEN {"front_matter"} ELSE {})
        \cup (IF cfg.drop_boilerplate /\ HasBoilerplate(c.text) THEN {"boilerplate"} ELSE {})
        \cup (IF cfg.drop_image_only /\ IsImageOnly(c.text) THEN {"image_only"} ELSE {})
        \cup (IF c.token_count < cfg.min_tokens THEN {"low_signal"} ELSE {})
        \cup (IF Sha(Strip(c.text)) \in seen THEN {"duplicate"} ELSE {})

\* variant of Drops: any tag drops the chunk, low_signal included
DropsAnyTag(tags) == tags # {}

\* the drop decision of the per-chunk pass
Drops(tags) ==
    \/ "duplicate" \in tags
    \/ "front_matter" \in tags
    \/ "boilerplate" \in tags
    \/ "image_only" \in tags

\* d[t] = d.get(t, 0) + n
Bump(d, t, n) ==
    IF t \in DOMAIN d THEN [d EXCEPT ![t] = @ + n] ELSE (t :> n) @@ d

RECURSIVE BumpAll(_, _)
\* for t in set(tags): dropped_by_tag[t] = dropped_by_tag.get(t, 0) + 1
BumpAll(d, tags) ==
    IF tags = {} THEN d
    ELSE LET t == CHOOSE x \in tags : TRUE
         IN  BumpAll(Bump(d, t, 1), tags \ {t})

\* the tags stored in the kept chunk's metadata: sorted(set(old + new)), as a set
MetaTags(meta, tags) == (IF "tags" \in DOMAIN meta THEN meta.tags ELSE {}) \cup tags

\* the key of the group of by_parent a chunk falls in
ParentKey(c) == OrElse(c.metadata.parent_section_path, "")

\* the sort key (quality_score, token_count), compared as tuples
KeyGeq(a, b) ==
    \/ a.metadata.quality_score > b.metadata.quality_score
    \/ /\ a.metadata.quality_score = b.metadata.quality_score
       /\ a.token_count >= b.token_count

RECURSIVE InsertDesc(_, _)
\* x put after the elements whose key is at least x's
InsertDesc(sorted, x) ==
    IF sorted = <<>> THEN <<x>>
    ELSE IF KeyGeq(sorted[1], x) THEN <<sorted[1]>> \o InsertDesc(Tail(sorted), x)
    ELSE <<x>> \o sorted

\* variant of SortedDesc: the list in the order it has
Unsorted(cs, acc) == acc \o cs

RECURSIVE SortedDesc(_, _)
\* sorted(cs, key=(quality_score, token_count), reverse=True): stable
SortedDesc(cs, acc) ==
    IF cs = <<>> THEN acc ELSE SortedDesc(Tail(cs), InsertDesc(acc, cs[1]))

RECURSIVE ParentKeys(_, _)
\* the keys of by_parent in insertion order
ParentKeys(cs, acc) ==
    IF cs = <<>> THEN acc
    ELSE ParentKeys(Tail(cs),
            IF \E k \in 1..Len(acc) : acc[k] = ParentKey(cs[1]) THEN acc
            ELSE Append(acc, ParentKey(cs[1])))

\* by_parent[parent]
Group(cs, parent) == SelectSeq(cs, LAMBDA c : ParentKey(c) = parent)

\* variant of CapGroup: the whole group is kept
CapGroupNone(group, max_chunks_per_parent) == group

\* the chunks of a group the per-parent cap keeps
CapGroup(group, max_chunks_per_parent) ==
    IF Len(group) <= max_chunks_per_parent THEN group
    ELSE LET top == SubSeq(SortedDesc(group, <<>>), 1, max_chunks_per_parent)
             keep_set == {Sha(Strip(top[k].text)) : k \in 1..Len(top)}
         IN  SelectSeq(group, LAMBDA c : Sha(Strip(c.text)) \in keep_set)

RECURSIVE CapParents(_, _, _)
\* "capped" after the loop over by_parent.items()
CapParents(cs, keys, max_chunks_per_parent) ==
    IF keys = <<>> THEN <<>>
    ELSE CapGroup(Group(cs, keys[1]), max_chunks_per_parent)
         \o CapParents(cs, Tail(keys), max_chunks_per_parent)

\* the document cap
CapDoc(cs, max_chunks_per_doc) ==
    IF Len(cs) > max_chunks_per_doc
    THEN SubSeq(SortedDesc(cs, <<>>), 1, max_chunks_per_doc)
    ELSE cs

\* FilterStats
MkStats(total_in, total_out, dropped, by_tag) ==
    [total_in |-> total_in, total_out |-> total_out, dropped |-> dropped,
     dropped_by_tag |-> by_tag]

\* ------------------------------------------------------------------ bounds

\* the most paragraphs (blank-line separated units) of an input document
MaxUnits == 3

\* the paragraphs an input document is made of
Units ==
    {"# A", "## B", "# isbn", "ab", "abcdefgh", "[IMAGE]", "phone:1"}

RECURSIVE SeqsUpTo(_, _)
\* the sequences over S of length at most n
SeqsUpTo(S, n) ==
    IF n = 0 THEN {<<>>}
    ELSE LET shorter == SeqsUpTo(S, n - 1)
         IN  shorter \cup {Append(q, x) : q \in {r \in shorter : Len(r) = n - 1}, x \in S}

\* the input documents: up to MaxUnits paragraphs joined by blank lines
Documents == {Join(us, "\n\n") : us \in SeqsUpTo(Units, MaxUnits)}

\* the chunker configurations: min_tokens <= max_tokens, overlap_tokens >= 0
ChunkerConfigs ==
    {c \in [min_tokens : {1, 2}, max_tokens : {1, 2}, overlap_tokens : {0, 1},
            parent_section_level : {1, 2}] : c.min_tokens <= c.max_tokens}

\* FilterConfig with its default drop flags; one disabled configuration
FilterConfigs ==
    [enabled : {TRUE}, min_tokens : {1, 2}, max_chunks_per_doc : {1, 2},
     max_chunks_per_parent : {1, 2}, drop_front_matter : {TRUE},
     drop_image_only : {TRUE}, drop_boilerplate : {TRUE}]
    \cup
    [enabled : {FALSE}, min_tokens : {1}, max_chunks_per_doc : {2},
     max_chunks_per_parent : {2}, drop_front_matter : {TRUE},
     drop_image_only : {TRUE}, drop_boilerplate : {TRUE}]

\* ------------------------------------------------------------------- state

VARIABLES
    pc,             \* where the pipeline is
    text,           \* the Markdown given to chunk()
    chunker,        \* the TokenAwareChunker's fields
    blocks,         \* chunk(): the expanded blocks
    bi,             \* chunk(): the position of the assembly loop in blocks
    cur,            \* chunk(): the accumulator
    cur_tokens,     \* chunk(): its running token sum
    idx,            \* chunk(): the next chunk index
    active_parent,  \* chunk(): the active parent section path
    chunks,         \* chunk(): the finished chunks, then the list chunk() returns
    flushed,        \* history: the blocks that went into each chunk of chunks
    fcfg,           \* filter_chunks(): cfg
    fchunks,        \* filter_chunks(): chunks after _merge_heading_with_next
    fi,             \* filter_chunks(): the position of the per-chunk pass in fchunks
    seen_hashes,    \* filter_chunks(): seen_hashes
    kept,           \* filter_chunks(): kept
    dropped_by_tag, \* filter_chunks(): dropped_by_tag
    tagged,         \* history: the tags and the drop decision of each chunk of the pass
    capped,         \* filter_chunks(): capped after the per-parent cap
    out,            \* filter_chunks(): the returned chunk list
    stats,          \* filter_chunks(): the returned FilterStats
    raw,            \* run_ingest_job(): extracted.markdown
    md,             \* run_ingest_job(): md
    settings,       \* run_ingest_job(): the CHUNK_* settings
    trail,          \* history: the stage calls made so far, each with input and output
    first,          \* history: what each finished earlier run of the job returned
    call,           \* a function called on its own: its name and arguments
    result,         \* what that call returned
    text_lines,     \* _iter_blocks(): lines
    scan,           \* _iter_blocks(): i, para, section_stack and blocks of the while loop
    batches,        \* BatchManager.batches
    uploads,        \* the files being uploaded: of each its total and its text
    delivered,      \* history: of each file the orders of its payloads, as they arrived
    returned        \* history: of each file what add_batch returned, call by call

chunkVars == <<text, chunker, blocks, bi, cur, cur_tokens, idx, active_parent, chunks,
               flushed>>

filterVars == <<fcfg, fchunks, fi, seen_hashes, kept, dropped_by_tag, tagged, capped,
                out, stats>>

ingestVars == <<raw, md, settings, trail, first>>

\* the state of the functions run on their own
batchVars == <<batches, uploads, delivered, returned>>

restVars == <<call, result, text_lines, scan, batchVars>>

\* the state outside chunk() and filter_chunks()
otherVars == <<ingestVars, restVars>>

vars == <<pc, chunkVars, filterVars, otherVars>>

\* nothing of run_ingest_job's front stages is in play
IngestIdle ==
    /\ raw = ""
    /\ md = ""
    /\ settings = None
    /\ trail = <<>>
    /\ first = <<>>

\* no BatchManager is in play
BatchIdle ==
    /\ batches = <<>>
    /\ uploads = <<>>
    /\ delivered = <<>>
    /\ returned = <<>>

\* no function is run on its own
RestIdle ==
    /\ call = <<>>
    /\ result = <<>>
    /\ text_lines = <<>>
    /\ scan = Scan(1, <<>>, <<>>, <<>>)
    /\ BatchIdle

Init ==
    /\ pc = "start"
    /\ text \in Documents
    /\ chunker \in ChunkerConfigs
    /\ blocks = <<>>
    /\ bi = 1
    /\ cur = <<>>
    /\ cur_tokens = 0
    /\ idx = 0
    /\ active_parent = None
    /\ chunks = <<>>
    /\ flushed = <<>>
    /\ fcfg = None
    /\ fchunks = <<>>
    /\ fi = 1
    /\ seen_hashes = {}
    /\ kept = <<>>
    /\ dropped_by_tag = <<>>
    /\ tagged = <<>>
    /\ capped = <<>>
    /\ out = <<>>
    /\ stats = None
    /\ IngestIdle
    /\ RestIdle

\* chunk(): parse, expand the oversized blocks, set up the assembly loop
ChunkBegin ==
    /\ pc = "start"
    /\ pc' = "assemble"
    /\ blocks' = Expand(IterBlocks(text, chunker.parent_section_level), chunker.max_tokens)
    /\ bi' = 1
    /\ cur' = <<>>
    /\ cur_tokens' = 0
    /\ idx' = 0
    /\ active_parent' = None
    /\ chunks' = <<>>
    /\ flushed' = <<>>
    /\ UNCHANGED <<text, chunker, filterVars>>
    /\ UNCHANGED otherVars

\* the history after a flush of the accumulator bs
Logged(log, bs) ==
    IF Flushes(bs) THEN Append(log, [blocks |-> bs, joined |-> 1]) ELSE log

\* chunk(): one iteration of "for b in blocks"
AssembleBlock ==
    /\ pc = "assemble"
    /\ bi <= Len(blocks)
    /\ LET b == blocks[bi]
           boundary == IsBoundary(b, chunker.parent_section_level)
           chunks1 == IF boundary THEN FlushInto(chunks, cur, idx, active_parent) ELSE chunks
           log1 == IF boundary THEN Logged(flushed, cur) ELSE flushed
           cur1 == IF boundary THEN <<>> ELSE cur
           tokens1 == IF boundary THEN 0 ELSE cur_tokens
           active1 == IF boundary THEN b.parent_section_path ELSE active_parent
           active2 == IF active1 = None THEN b.parent_section_path ELSE active1
           bt == b.token_count
           chunks2 == FlushInto(chunks1, cur1, Len(chunks1), active2)
           tail == Strip(TailText(chunks2[Len(chunks2)].text, chunker.overlap_tokens))
           seeded == IF tail # "" THEN <<OverlapBlock(tail, active2), b>> ELSE <<b>>
       IN  /\ active_parent' = active2
           /\ IF tokens1 + bt <= chunker.max_tokens
              THEN /\ cur' = Append(cur1, b)
                   /\ cur_tokens' = tokens1 + bt
                   /\ chunks' = chunks1
                   /\ flushed' = log1
              ELSE /\ chunks' = chunks2
                   /\ flushed' = Logged(log1, cur1)
                   /\ IF /\ chunks2 # <<>>
                         /\ chunker.overlap_tokens > 0
                         /\ chunks2[Len(chunks2)].metadata.parent_section_path = active2
                      THEN /\ cur' = seeded
                           /\ cur_tokens' = Count(Join(Texts(seeded), "\n\n"))
                      ELSE /\ cur' = <<b>>
                           /\ cur_tokens' = bt
    /\ idx' = Len(chunks')
    /\ bi' = bi + 1
    /\ UNCHANGED <<pc, text, chunker, blocks, filterVars>>
    /\ UNCHANGED otherVars

\* chunk(): the flush after the loop, the small-chunk merge and the reindex
ChunkEnd ==
    /\ pc = "assemble"
    /\ bi > Len(blocks)
    /\ pc' = "chunked"
    /\ LET finished == FlushInto(chunks, cur, idx, active_parent)
       IN  /\ chunks' = Reindex(MergeSmall(finished, <<>>, chunker.min_tokens))
           /\ flushed' = MergeSmallLog(finished, Logged(flushed, cur), <<>>, <<>>,
                                       chunker.min_tokens)
    /\ cur' = <<>>
    /\ cur_tokens' = 0
    /\ idx' = 0
    /\ active_parent' = None
    /\ UNCHANGED <<text, chunker, blocks, bi, filterVars>>
    /\ UNCHANGED otherVars

\* filter_chunks is given the chunk list alone: the text, the chunker and the
\* locals of the finished chunk() call are out of its reach and are forgotten
ChunkReturned ==
    /\ text' = ""
    /\ chunker' = None
    /\ blocks' = <<>>
    /\ bi' = 1
    /\ flushed' = <<>>
    /\ UNCHANGED <<cur, cur_tokens, idx, active_parent, chunks>>

\* variant of DisabledReturn: the heading merge runs before the test of
\* cfg.enabled
DisabledReturnMerged(cs) ==
    [chunks |-> MergeHeadingWithNext(cs),
     stats |-> MkStats(Len(cs), Len(MergeHeadingWithNext(cs)),
                       Len(cs) - Len(MergeHeadingWithNext(cs)), <<>>)]

\* what filter_chunks returns with the filter disabled
DisabledReturn(cs) == [chunks |-> cs, stats |-> MkStats(Len(cs), Len(cs), 0, <<>>)]

\* filter_chunks(): "if not cfg.enabled: return chunks, FilterStats(...)"
FilterDisabled ==
    /\ pc = "chunked"
    /\ \E cfg \in FilterConfigs :
        /\ ~cfg.enabled
        /\ fcfg' = cfg
    /\ pc' = "done"
    /\ out' = DisabledReturn(chunks).chunks
    /\ stats' = DisabledReturn(chunks).stats
    /\ ChunkReturned
    /\ UNCHANGED <<fchunks, fi, seen_hashes, kept, dropped_by_tag, tagged, capped>>
    /\ UNCHANGED otherVars

\* variant of FilterBegin: seen_hashes outlives the call, so a retried job
\* starts with the hashes of the chunks its first run returned
FilterBeginSeenKept ==
    /\ pc = "chunked"
    /\ \E cfg \in FilterConfigs :
        /\ cfg.enabled
        /\ fcfg' = cfg
    /\ pc' = "tag"
    /\ fchunks' = MergeHeadingWithNext(chunks)
    /\ fi' = 1
    /\ seen_hashes' = IF first = <<>> THEN {}
                      ELSE {Sha(Strip(first[1].chunks[k].text)) :
                               k \in 1..Len(first[1].chunks)}
    /\ kept' = <<>>
    /\ dropped_by_tag' = <<>>
    /\ tagged' = <<>>
    /\ ChunkReturned
    /\ UNCHANGED <<capped, out, stats>>
    /\ UNCHANGED otherVars

\* filter_chunks(): the heading merge and the set-up of the per-chunk pass
FilterBegin ==
    /\ pc = "chunked"
    /\ \E cfg \in FilterConfigs :
        /\ cfg.enabled
        /\ fcfg' = cfg
    /\ pc' = "tag"
    /\ fchunks' = MergeHeadingWithNext(chunks)
    /\ fi' = 1
    /\ seen_hashes' = {}
    /\ kept' = <<>>
    /\ dropped_by_tag' = <<>>
    /\ tagged' = <<>>
    /\ ChunkReturned
    /\ UNCHANGED <<capped, out, stats>>
    /\ UNCHANGED otherVars

\* filter_chunks(): one iteration of "for c in chunks"
FilterTag ==
    /\ pc = "tag"
    /\ fi <= Len(fchunks)
    /\ \E tags \in {TagsOf(fchunks[fi], fcfg, seen_hashes)} :
       LET c == fchunks[fi]
           meta == [tags |-> MetaTags(c.metadata, tags),
                    quality_score |-> ComputeQualityScore(c.token_count, tags)]
                   @@ c.metadata
       IN  /\ tagged' = Append(tagged, [chunk |-> c, tags |-> tags, dropped |-> Drops(tags)])
           /\ IF Drops(tags)
              THEN /\ dropped_by_tag' = BumpAll(dropped_by_tag, tags)
                   /\ UNCHANGED <<seen_hashes, kept>>
              ELSE /\ seen_hashes' = seen_hashes \cup {Sha(Strip(c.text))}
                   /\ kept' = Append(kept, MkChunk(c.index, c.text, c.token_count, meta))
                   /\ UNCHANGED dropped_by_tag
    /\ fi' = fi + 1
    /\ UNCHANGED <<pc, chunkVars, fcfg, fchunks, capped, out, stats>>
    /\ UNCHANGED otherVars

\* filter_chunks(): the cap per parent section
FilterCapParent ==
    /\ pc = "tag"
    /\ fi > Len(fchunks)
    /\ pc' = "cap_doc"
    /\ capped' = CapParents(kept, ParentKeys(kept, <<>>), fcfg.max_chunks_per_parent)
    /\ dropped_by_tag' = IF Len(capped') < Len(kept)
                         THEN Bump(dropped_by_tag, "cap_parent", Len(kept) - Len(capped'))
                         ELSE dropped_by_tag
    /\ UNCHANGED <<chunkVars, fcfg, fchunks, fi, seen_hashes, kept, tagged, out, stats>>
    /\ UNCHANGED otherVars

\* filter_chunks(): the document cap, the reindex and the statistics
FilterCapDoc ==
    /\ pc = "cap_doc"
    /\ pc' = "done"
    /\ out' = Reindex(CapDoc(capped, fcfg.max_chunks_per_doc))
    /\ dropped_by_tag' = IF Len(capped) > fcfg.max_chunks_per_doc
                         THEN Bump(dropped_by_tag, "cap_doc",
                                   Len(capped) - fcfg.max_chunks_per_doc)
                         ELSE dropped_by_tag
    /\ stats' = MkStats(Len(fchunks), Len(out'), Len(fchunks) - Len(out'), dropped_by_tag')
    /\ UNCHANGED <<chunkVars, fcfg, fchunks, fi, seen_hashes, kept, tagged, capped>>
    /\ UNCHANGED otherVars

Next ==
    \/ ChunkBegin
    \/ AssembleBlock
    \/ ChunkEnd
    \/ FilterDisabled
    \/ FilterBegin
    \/ FilterTag
    \/ FilterCapParent
    \/ FilterCapDoc

Spec == Init /\ [][Next]_vars

\* ------------------------------------------------- normalize_markdown

RECURSIVE ReplaceFrom(_, _, _, _)
\* s[i:].replace(old, new): the leftmost occurrence, then the rest after it
ReplaceFrom(s, i, old, new) ==
    LET j == FirstWhere(s, i, LAMBDA t, k : /\ k + Len(old) - 1 <= Len(t)
                                            /\ SubSeq(t, k, k + Len(old) - 1) = old)
    IN  IF j > Len(s) THEN SubSeq(s, i, Len(s))
        ELSE SubSeq(s, i, j - 1) \o new \o ReplaceFrom(s, j + Len(old), old, new)

\* str.replace(old, new)
ReplaceAll(s, old, new) == ReplaceFrom(s, 1, old, new)

RECURSIVE BlanksEnd(_, _)
\* index after the run of spaces and tabs that starts at i
BlanksEnd(s, i) == IF Char(s, i) \in {" ", "\t"} THEN BlanksEnd(s, i + 1) ELSE i

\* a run of spaces and tabs that a newline ends stands at index j
IsTrailingBlank(s, j) == Char(s, j) \in {" ", "\t"} /\ Char(s, BlanksEnd(s, j)) = "\n"

RECURSIVE StripTrailing(_, _)
\* re.sub(r"[ \t]+\n", "\n", s), from index i on
StripTrailing(s, i) ==
    LET j == FirstWhere(s, i, IsTrailingBlank)
    IN  IF j > Len(s) THEN SubSeq(s, i, Len(s))
        ELSE SubSeq(s, i, j - 1) \o StripTrailing(s, BlanksEnd(s, j))

\* a run of three or more newlines starts at index j
IsBlankRun(s, j) == Char(s, j) = "\n" /\ Char(s, j + 1) = "\n" /\ Char(s, j + 2) = "\n"

RECURSIVE CollapseNewlines(_, _)
\* re.sub(r"\n{3,}", "\n\n", s), from index i on
CollapseNewlines(s, i) ==
    LET j == FirstWhere(s, i, IsBlankRun)
    IN  IF j > Len(s) THEN SubSeq(s, i, Len(s))
        ELSE SubSeq(s, i, j - 1) \o "\n\n" \o CollapseNewlines(s, NewlinesEnd(s, j))

\* the paragraphs as they are: variant of DedupAdjacent
KeepAdjacent(paras, deduped) == deduped \o paras

RECURSIVE DedupAdjacent(_, _)
\* "if deduped and deduped[-1] == p: continue"
DedupAdjacent(paras, deduped) ==
    IF paras = <<>> THEN deduped
    ELSE DedupAdjacent(Tail(paras),
            IF deduped # <<>> /\ deduped[Len(deduped)] = paras[1] THEN deduped
            ELSE Append(deduped, paras[1]))

\* [p.strip() for p in re.split(r"\n{2,}", md) if p.strip()]
Paragraphs(s) == StripNonEmpty(SplitParasFrom(s, 1, <<>>))

\* normalize_markdown(md)
NormalizeMarkdown(s) ==
    LET s1 == ReplaceAll(s, "\r\n", "\n")
        s2 == StripTrailing(s1, 1)
        s3 == CollapseNewlines(s2, 1)
        s4 == ReplaceAll(s3, "<!-- image -->", "[IMAGE]")
    IN  Strip(Join(DedupAdjacent(Paragraphs(s4), <<>>), "\n\n"))

\* --------------------------------------------------- cleanup_markdown

\* cleanup_markdown.is_candidate
IsCandidate(line) ==
    LET s == Strip(line)
    IN  /\ s # ""
        /\ ~StartsWith(s, "#")
        /\ ~StartsWith(s, "|")
        /\ ~IsListStart(s)
        /\ s # "[IMAGE]"
        /\ 3 <= Len(s)
        /\ Len(s) <= 80

\* counts[s]
Occurrences(lines, s) ==
    Cardinality({k \in 1..Len(lines) : IsCandidate(lines[k]) /\ Strip(lines[k]) = s})

\* "c >= 6"
RepeatThreshold == 6

\* variant of Repeated: a text is repeated from its second occurrence on
RepeatedTwice(lines) ==
    {Strip(lines[k]) : k \in {j \in 1..Len(lines) :
        IsCandidate(lines[j]) /\ Occurrences(lines, Strip(lines[j])) >= 2}}

\* repeated
Repeated(lines) ==
    {Strip(lines[k]) : k \in {j \in 1..Len(lines) :
        IsCandidate(lines[j]) /\ Occurrences(lines, Strip(lines[j])) >= RepeatThreshold}}

\* cleanup_markdown(md)
CleanupMarkdown(s) ==
    LET s1 == ReplaceAll(s, "\r\n", "\n")
        lines == SplitLines(s1)
        repeated == Repeated(lines)
        outl == SelectSeq(lines, LAMBDA ln : Strip(ln) \notin repeated)
    IN  IF repeated = {} THEN Strip(s1)
        ELSE Strip(CollapseNewlines(Join(outl, "\n"), 1))

\* ------------------------------------------------------- run_ingest_job

MaxIngestUnits == 2

\* the pieces of the extracted Markdown: a heading, text with trailing
\* whitespace and a carriage return, a whitespace-only paragraph, an oversized
\* paragraph, Docling's image placeholder
IngestUnits == {"# A", "ab \r", " \t", "abcdefgh", "<!-- image -->"}

IngestInputs == {Join(us, "\n\n") : us \in SeqsUpTo(IngestUnits, MaxIngestUnits)}

\* settings.CHUNK_*: any integers the environment gives, max below min and a
\* parent section level outside 1..6 included
IngestSettings ==
    [CHUNK_MIN_TOKENS : {1, 2}, CHUNK_MAX_TOKENS : {1, 2},
     CHUNK_OVERLAP_TOKENS : {0, 1}, CHUNK_PARENT_SECTION_LEVEL : {0, 2}]

\* chunk() and filter_chunks() have not been called
PipelineIdle ==
    /\ text = ""
    /\ chunker = None
    /\ blocks = <<>>
    /\ bi = 1
    /\ cur = <<>>
    /\ cur_tokens = 0
    /\ idx = 0
    /\ active_parent = None
    /\ chunks = <<>>
    /\ flushed = <<>>
    /\ fcfg = None
    /\ fchunks = <<>>
    /\ fi = 1
    /\ seen_hashes = {}
    /\ kept = <<>>
    /\ dropped_by_tag = <<>>
    /\ tagged = <<>>
    /\ capped = <<>>
    /\ out = <<>>
    /\ stats = None

\* run_ingest_job with the Markdown extracted
InitIngest ==
    /\ pc = "extracted"
    /\ raw \in IngestInputs
    /\ settings \in IngestSettings
    /\ md = None
    /\ trail = <<>>
    /\ first = <<>>
    /\ PipelineIdle
    /\ RestIdle

\* the history after a call of a stage
Called(fn, arg, ret) == Append(trail, [fn |-> fn, arg |-> arg, ret |-> ret])

\* md = normalize_markdown(extracted.markdown)
NormalizeStage ==
    /\ pc = "extracted"
    /\ pc' = "normalized"
    /\ md' = NormalizeMarkdown(raw)
    /\ trail' = Called("normalize_markdown", raw, md')
    /\ UNCHANGED <<raw, settings, first, chunkVars, filterVars, restVars>>

\* md = cleanup_markdown(md)
CleanupStage ==
    /\ pc = "normalized"
    /\ pc' = "cleaned"
    /\ md' = CleanupMarkdown(md)
    /\ trail' = Called("cleanup_markdown", md, md')
    /\ UNCHANGED <<raw, settings, first, chunkVars, filterVars, restVars>>

\* TokenAwareChunker.__init__
NewChunker(min_tokens, max_tokens, overlap_tokens, parent_section_level) ==
    [min_tokens |-> min_tokens, max_tokens |-> max_tokens,
     overlap_tokens |-> overlap_tokens,
     parent_section_level |-> Max(1, Min(6, parent_section_level))]

\* chunker = TokenAwareChunker(...); chunker.chunk(md) is entered
Construct ==
    /\ pc = "cleaned"
    /\ pc' = "start"
    /\ chunker' = NewChunker(settings.CHUNK_MIN_TOKENS, settings.CHUNK_MAX_TOKENS,
                             settings.CHUNK_OVERLAP_TOKENS,
                             settings.CHUNK_PARENT_SECTION_LEVEL)
    /\ text' = md
    /\ UNCHANGED <<blocks, bi, cur, cur_tokens, idx, active_parent, chunks, flushed>>
    /\ UNCHANGED <<filterVars, ingestVars, restVars>>

\* a retried job reads the same CHUNK_FILTER_* settings as its first run
SameFilterConfig == first # <<>> => fcfg' = first[1].fcfg

IngestFilterDisabled == FilterDisabled /\ SameFilterConfig

IngestFilterBegin == FilterBegin /\ SameFilterConfig

\* the job is retried on the same document with the same settings
Retry ==
    /\ pc = "done"
    /\ first = <<>>
    /\ first' = <<[fcfg |-> fcfg, chunks |-> out, stats |-> stats]>>
    /\ pc' = "extracted"
    /\ md' = None
    /\ trail' = <<>>
    /\ text' = ""
    /\ chunker' = None
    /\ blocks' = <<>>
    /\ bi' = 1
    /\ cur' = <<>>
    /\ cur_tokens' = 0
    /\ idx' = 0
    /\ active_parent' = None
    /\ chunks' = <<>>
    /\ flushed' = <<>>
    /\ fcfg' = None
    /\ fchunks' = <<>>
    /\ fi' = 1
    /\ seen_hashes' = {}
    /\ kept' = <<>>
    /\ dropped_by_tag' = <<>>
    /\ tagged' = <<>>
    /\ capped' = <<>>
    /\ out' = <<>>
    /\ stats' = None
    /\ UNCHANGED <<raw, settings, restVars>>

NextIngest ==
    \/ NormalizeStage
    \/ CleanupStage
    \/ Construct
    \/ ChunkBegin
    \/ AssembleBlock
    \/ ChunkEnd
    \/ IngestFilterDisabled
    \/ IngestFilterBegin
    \/ FilterTag
    \/ FilterCapParent
    \/ FilterCapDoc
    \/ Retry

SpecIngest == InitIngest /\ [][NextIngest]_vars

\* ------------------------------------------- the front stages on their own

\* normalize_markdown and cleanup_markdown are functions of one string; here
\* each is applied to texts with carriage returns, runs of newlines, repeated
\* paragraphs and lines repeated up to and beyond the threshold of cleanup

MaxFrontUnits == 4

FrontUnits ==
    {"abc", "\nabc\n abc\nabc \nabc\nabc\n", "xyz \r\r", "# abc\n \t",
     "ab\nab\nab\nab\nab\nab"}

FrontInputs == {Join(us, "\n") : us \in SeqsUpTo(FrontUnits, MaxFrontUnits)}

InitFront ==
    /\ pc = "front"
    /\ raw \in FrontInputs
    /\ md = None
    /\ settings = None
    /\ trail = <<>>
    /\ first = <<>>
    /\ PipelineIdle
    /\ RestIdle

\* normalize_markdown(raw)
FrontNormalize ==
    /\ pc = "front"
    /\ pc' = "front_normalized"
    /\ md' = NormalizeMarkdown(raw)
    /\ trail' = Called("normalize_markdown", raw, md')
    /\ UNCHANGED <<raw, settings, first, chunkVars, filterVars, restVars>>

\* normalize_markdown on the output of normalize_markdown
FrontNormalizeAgain ==
    /\ pc = "front_normalized"
    /\ pc' = "front_renormalized"
    /\ md' = NormalizeMarkdown(md)
    /\ trail' = Called("normalize_markdown", md, md')
    /\ UNCHANGED <<raw, settings, first, chunkVars, filterVars, restVars>>

\* cleanup_markdown(raw)
FrontCleanup ==
    /\ pc = "front"
    /\ pc' = "front_cleaned"
    /\ md' = CleanupMarkdown(raw)
    /\ trail' = Called("cleanup_markdown", raw, md')
    /\ UNCHANGED <<raw, settings, first, chunkVars, filterVars, restVars>>

\* cleanup_markdown on the output of normalize_markdown
FrontCleanupNormalized ==
    /\ pc = "front_normalized"
    /\ pc' = "front_cleaned"
    /\ md' = CleanupMarkdown(md)
    /\ trail' = Called("cleanup_markdown", md, md')
    /\ UNCHANGED <<raw, settings, first, chunkVars, filterVars, restVars>>

NextFront ==
    \/ FrontNormalize
    \/ FrontNormalizeAgain
    \/ FrontCleanup
    \/ FrontCleanupNormalized

SpecFront == InitFront /\ [][NextFront]_vars

\* ------------------------------------- the oversize expansion on its own

\* chunk() expands one block of any text under a budget of max_tokens: texts of
\* several paragraphs, of sentences that fit alone or together, of sentences
\* that do not fit and are sliced, with blanks where a slice ends

MaxSplitUnits == 3

SplitUnits == {"ab.", "abcdefgh", "abcd    efghi", "cd!  ef"}

SplitSeparators == {" ", "\n", "\n\n"}

RECURSIVE SplitTexts(_)
\* the texts of n units or fewer
SplitTexts(n) ==
    IF n = 0 THEN {""}
    ELSE IF n = 1 THEN SplitUnits \cup {""}
    ELSE LET shorter == SplitTexts(n - 1)
         IN  shorter \cup {t \o sep \o u : t \in shorter \ {""}, sep \in SplitSeparators,
                                           u \in SplitUnits}

SplitBudgets == {1, 2}

InitSplit ==
    /\ pc = "oversize"
    /\ call \in {<<[fn |-> "_split_big_text", block |-> t, max_tokens |-> m]>> :
                    t \in SplitTexts(MaxSplitUnits), m \in SplitBudgets}
    /\ result = <<>>
    /\ text_lines = <<>>
    /\ scan = Scan(1, <<>>, <<>>, <<>>)
    /\ BatchIdle
    /\ IngestIdle
    /\ PipelineIdle

\* chunk(): the expansion of one text block
ExpandOne ==
    /\ pc = "oversize"
    /\ pc' = "expanded"
    /\ LET b == Block(call[1].block, Count(call[1].block), None, None, "text", NoLevel)
       IN  result' = <<Texts(Expand(<<b>>, call[1].max_tokens))>>
    /\ UNCHANGED <<call, text_lines, scan, batchVars, chunkVars, filterVars, ingestVars>>

NextSplit == ExpandOne

SpecSplit == InitSplit /\ [][NextSplit]_vars

\* ------------------------------------------- the quality score on its own

\* filter_chunks scores a chunk from its token count and its tags only; here
\* the score is taken for every set of tags and every token count up to a bound
\* past the one the bonus starts at

MaxTokenCount == 201

ScoreTags == {"front_matter", "boilerplate", "image_only", "duplicate", "low_signal"}

InitScore ==
    /\ pc = "tagged"
    /\ call \in {<<[fn |-> "_compute_quality_score", token_count |-> n, tags |-> ts]>> :
                    n \in 0..MaxTokenCount, ts \in SUBSET ScoreTags}
    /\ result = <<>>
    /\ text_lines = <<>>
    /\ scan = Scan(1, <<>>, <<>>, <<>>)
    /\ BatchIdle
    /\ IngestIdle
    /\ PipelineIdle

\* quality_score = _compute_quality_score(token_count=c.token_count, tags=tags)
Score ==
    /\ pc = "tagged"
    /\ pc' = "scored"
    /\ result' = <<ComputeQualityScore(call[1].token_count, call[1].tags)>>
    /\ UNCHANGED <<call, text_lines, scan, batchVars, chunkVars, filterVars, ingestVars>>

NextScore == Score

SpecScore == InitScore /\ [][NextScore]_vars

\* --------------------------------------------- the block parser, line by line

\* _iter_blocks run one iteration of its while loop at a time, on documents of
\* headings of three levels, paragraphs, blank lines and image markers

MaxParseLines == 4

ParseLines == {"# A", "## B", "### C", "## D", "ab", "", "[IMAGE]"}

ParseLevels == {1, 2}

InitParse ==
    /\ pc = "parsing"
    /\ text_lines \in SeqsUpTo(ParseLines, MaxParseLines)
    /\ scan = Scan(1, <<>>, <<>>, <<>>)
    /\ BatchIdle
    /\ chunker \in {NewChunker(1, 2, 0, psl) : psl \in ParseLevels}
    /\ text = ""
    /\ blocks = <<>>
    /\ bi = 1
    /\ cur = <<>>
    /\ cur_tokens = 0
    /\ idx = 0
    /\ active_parent = None
    /\ chunks = <<>>
    /\ flushed = <<>>
    /\ fcfg = None
    /\ fchunks = <<>>
    /\ fi = 1
    /\ seen_hashes = {}
    /\ kept = <<>>
    /\ dropped_by_tag = <<>>
    /\ tagged = <<>>
    /\ capped = <<>>
    /\ out = <<>>
    /\ stats = None
    /\ call = <<>>
    /\ result = <<>>
    /\ IngestIdle

\* _iter_blocks: one iteration of "while i < len(text_lines)"
ParseLine ==
    /\ pc = "parsing"
    /\ scan.i <= Len(text_lines)
    /\ scan' = IterStep(text_lines, scan.i, scan.para, scan.stack, scan.blocks,
                        chunker.parent_section_level)
    /\ UNCHANGED <<pc, text_lines, call, result, batchVars, chunkVars, filterVars, ingestVars>>

\* _iter_blocks: the loop is over; flush_para() and return blocks
ParseEnd ==
    /\ pc = "parsing"
    /\ scan.i > Len(text_lines)
    /\ pc' = "parsed"
    /\ scan' = Scan(scan.i, <<>>, scan.stack,
                    FlushPara(scan.para, scan.stack, scan.blocks,
                              chunker.parent_section_level))
    /\ UNCHANGED <<text_lines, call, result, batchVars, chunkVars, filterVars, ingestVars>>

NextParse == ParseLine \/ ParseEnd

SpecParse == InitParse /\ [][NextParse]_vars

\* ------------------------------------------------------------ BatchManager

\* A file's configuration travels as a JSON text cut into total pieces, each
\* sent in a DataBatchPayload with its order; the BatchManager gathers the pieces
\* of each fileID.  goldenverba.server.types is not among the sources:
\* FileConfig.model_validate_json is modelled from what the specification says
\* of it, a parse that gives the FileConfig of a well-formed text and raises on
\* any other text.

FileIDs == {"f1", "f2"}

MaxTotal == 3

\* the JSON text of a file's FileConfig
ConfigJson(f) == "{\"fileID\":\"" \o f \o "\"}"

\* a text that is no FileConfig
BrokenJson(f) == "{\"fileID\":" \o f

\* FileConfig.model_validate_json(data): raises on a text that is no FileConfig
ModelValidateJson(data) ==
    IF \E f \in FileIDs : data = ConfigJson(f)
    THEN [raised |-> FALSE,
          value |-> <<[fileID |-> CHOOSE f \in FileIDs : data = ConfigJson(f)]>>]
    ELSE [raised |-> TRUE, value |-> <<>>]

\* the piece of order k (from 0) of a text cut into total pieces
Piece(s, total, k) ==
    LET w == Len(s) \div total
    IN  SubSeq(s, k * w + 1, IF k = total - 1 THEN Len(s) ELSE (k + 1) * w)

\* DataBatchPayload
DataBatchPayload(chunk, isLastChunk, total, fileID, order) ==
    [chunk |-> chunk, isLastChunk |-> isLastChunk, total |-> total, fileID |-> fileID,
     order |-> order]

\* d[key] = value on a dict kept as the list of its (key, value) pairs in
\* insertion order
DictSet(d, key, value) ==
    IF \E k \in 1..Len(d) : d[k][1] = key
    THEN [k \in 1..Len(d) |-> IF d[k][1] = key THEN <<key, value>> ELSE d[k]]
    ELSE Append(d, <<key, value>>)

RECURSIVE ValuesFrom(_, _)
\* the values of a dict from its k-th pair on, in insertion order
ValuesFrom(d, k) == IF k > Len(d) THEN <<>> ELSE <<d[k][2]>> \o ValuesFrom(d, k + 1)

\* variant of InKeyOrder: the values as they were inserted
InArrivalOrder(d) == ValuesFrom(d, 1)

RECURSIVE InKeyOrder(_)
\* [chunks[index] for index in sorted(chunks.keys())]
InKeyOrder(d) ==
    IF d = <<>> THEN <<>>
    ELSE LET k == CHOOSE i \in 1..Len(d) : \A j \in 1..Len(d) : d[i][1] <= d[j][1]
         IN  <<d[k][2]>> \o InKeyOrder(SelectSeq(d, LAMBDA e : e[1] # d[k][1]))

\* BatchManager.check_batch: None is <<>>, a FileConfig c is <<c>>
CheckBatch(bs, fileID) ==
    IF fileID \notin DOMAIN bs THEN [raised |-> FALSE, value |-> <<>>]
    ELSE IF Len(bs[fileID].chunks) = bs[fileID].total
         THEN ModelValidateJson(Join(InKeyOrder(bs[fileID].chunks), ""))
    ELSE [raised |-> FALSE, value |-> <<>>]

\* the batches without that of fileID
Without(bs, fileID) == [g \in DOMAIN bs \ {fileID} |-> bs[g]]

\* BatchManager.add_batch: the batches after the call and the value returned
AddBatchTo(bs, payload) ==
    LET f == payload.fileID
        created == IF f \in DOMAIN bs THEN bs
                   ELSE [g \in DOMAIN bs \cup {f} |->
                            IF g = f THEN [fileID |-> f, total |-> payload.total,
                                           chunks |-> <<>>]
                            ELSE bs[g]]
        stored == [created EXCEPT ![f].chunks = DictSet(@, payload.order, payload.chunk)]
        fileConfig == CheckBatch(stored, f)
    IN  IF fileConfig.raised THEN [batches |-> stored, ret |-> <<>>]
        ELSE IF fileConfig.value # <<>> \/ payload.isLastChunk
             THEN [batches |-> Without(stored, f), ret |-> fileConfig.value]
        ELSE [batches |-> stored, ret |-> fileConfig.value]

\* the uploads: of each file a total and a text, well-formed or not
Uploads ==
    {u \in [FileIDs -> [total : 1..MaxTotal, text : {ConfigJson(f) : f \in FileIDs}
                                                    \cup {BrokenJson(f) : f \in FileIDs}]] :
        \A f \in FileIDs : u[f].text \in {ConfigJson(f), BrokenJson(f)}}

InitBatch ==
    /\ pc = "serving"
    /\ batches = [f \in {} |-> 0]
    /\ uploads \in Uploads
    /\ delivered = [f \in FileIDs |-> <<>>]
    /\ returned = [f \in FileIDs |-> <<>>]
    /\ call = <<>>
    /\ result = <<>>
    /\ text_lines = <<>>
    /\ scan = Scan(1, <<>>, <<>>, <<>>)
    /\ IngestIdle
    /\ PipelineIdle

\* a payload of a file arrives, in any order among those of its file and among
\* those of the other files, each order once; it may be flagged isLastChunk when
\* it is the one that completes its file; add_batch runs on it
AddBatch ==
    /\ pc = "serving"
    /\ \E f \in FileIDs, order \in 0..(MaxTotal - 1), last \in BOOLEAN :
        /\ order < uploads[f].total
        /\ \A k \in 1..Len(delivered[f]) : delivered[f][k] # order
        /\ last => Len(delivered[f]) = uploads[f].total - 1
        /\ LET payload == DataBatchPayload(Piece(uploads[f].text, uploads[f].total, order),
                                           last, uploads[f].total, f, order)
               done == AddBatchTo(batches, payload)
           IN  /\ batches' = done.batches
               /\ returned' = [returned EXCEPT ![f] = Append(@, done.ret)]
               /\ delivered' = [delivered EXCEPT ![f] = Append(@, order)]
    /\ UNCHANGED <<pc, uploads, call, result, text_lines, scan, chunkVars, filterVars,
                   ingestVars>>

NextBatch == AddBatch

SpecBatch == InitBatch /\ [][NextBatch]_vars

\* ------------------------------------------------------ chunk() on its own

\* chunk() on its own on documents of headings of three levels, a heading longer
\* than one token, paragraphs and image markers; with max_tokens = 3 one chunk
\* can take three blocks, with max_tokens = 1 the long heading is oversized

MaxChunkUnits == 3

ChunkUnits == {"# A", "## B", "### C", "# abcdefg", "ab", "[IMAGE]"}

ChunkDocuments == {Join(us, "\n\n") : us \in SeqsUpTo(ChunkUnits, MaxChunkUnits)}

ChunkBudgets ==
    {NewChunker(1, max_tokens, overlap_tokens, psl) :
        max_tokens \in {1, 3}, overlap_tokens \in {0, 1}, psl \in {1, 2}}

InitChunk ==
    /\ pc = "start"
    /\ text \in ChunkDocuments
    /\ chunker \in ChunkBudgets
    /\ blocks = <<>>
    /\ bi = 1
    /\ cur = <<>>
    /\ cur_tokens = 0
    /\ idx = 0
    /\ active_parent = None
    /\ chunks = <<>>
    /\ flushed = <<>>
    /\ fcfg = None
    /\ fchunks = <<>>
    /\ fi = 1
    /\ seen_hashes = {}
    /\ kept = <<>>
    /\ dropped_by_tag = <<>>
    /\ tagged = <<>>
    /\ capped = <<>>
    /\ out = <<>>
    /\ stats = None
    /\ IngestIdle
    /\ RestIdle

NextChunk ==
    \/ ChunkBegin
    \/ AssembleBlock
    \/ ChunkEnd

SpecChunk == InitChunk /\ [][NextChunk]_vars

\* ------------------------------------------- the block parser on code fences

\* _iter_blocks, one iteration at a time, on documents with fences of both
\* markers and with lines that would be blocks of their own outside a fence

MaxFenceLines == 4

FenceLines == {"^^^", "~~~", "# A", "- x", "[IMAGE]", "|a|", "|---|", "ab"}

InitFence ==
    /\ pc = "called"
    /\ text_lines = <<>>
    /\ scan = Scan(1, <<>>, <<>>, <<>>)
    /\ chunker = NewChunker(1, 2, 0, 1)
    /\ call = <<>>
    /\ result = <<>>
    /\ BatchIdle
    /\ IngestIdle
    /\ text = ""
    /\ blocks = <<>>
    /\ bi = 1
    /\ cur = <<>>
    /\ cur_tokens = 0
    /\ idx = 0
    /\ active_parent = None
    /\ chunks = <<>>
    /\ flushed = <<>>
    /\ fcfg = None
    /\ fchunks = <<>>
    /\ fi = 1
    /\ seen_hashes = {}
    /\ kept = <<>>
    /\ dropped_by_tag = <<>>
    /\ tagged = <<>>
    /\ capped = <<>>
    /\ out = <<>>
    /\ stats = None

\* _iter_blocks is entered: lines = text.splitlines(), the loop starts at i = 0
ParseBegin ==
    /\ pc = "called"
    /\ pc' = "parsing"
    /\ text_lines' \in SeqsUpTo(FenceLines, MaxFenceLines)
    /\ scan' = Scan(1, <<>>, <<>>, <<>>)
    /\ UNCHANGED <<call, result, batchVars, chunkVars, filterVars, ingestVars>>

NextFence == ParseBegin \/ ParseLine \/ ParseEnd

SpecFence == InitFence /\ [][NextFence]_vars

\* ------------------------------------------------- TokenCounter on its own

\* count and tail_text of the heuristic counter called on texts of letters,
\* blanks and newlines

MaxTextLen == 6

TextChars == {"a", " ", "\n"}

CountTexts == {Join(cs, "") : cs \in SeqsUpTo(TextChars, MaxTextLen)}

TailTokens == {0, 1, 2}

InitCount ==
    /\ pc = "counter"
    /\ call \in {<<[text |-> t, tail_tokens |-> n]>> : t \in CountTexts, n \in TailTokens}
    /\ result = <<>>
    /\ text_lines = <<>>
    /\ scan = Scan(1, <<>>, <<>>, <<>>)
    /\ BatchIdle
    /\ IngestIdle
    /\ PipelineIdle

\* tc.count(text)
CountText ==
    /\ pc = "counter"
    /\ pc' = "counted"
    /\ result' = <<[fn |-> "count", value |-> Count(call[1].text)]>>
    /\ UNCHANGED <<call, text_lines, scan, batchVars, chunkVars, filterVars, ingestVars>>

\* tc.tail_text(text, tail_tokens)
TailOfText ==
    /\ pc = "counter"
    /\ pc' = "counted"
    /\ result' = <<[fn |-> "tail_text",
                    value |-> TailText(call[1].text, call[1].tail_tokens)]>>
    /\ UNCHANGED <<call, text_lines, scan, batchVars, chunkVars, filterVars, ingestVars>>

NextCount == CountText \/ TailOfText

SpecCount == InitCount /\ [][NextCount]_vars

\* ------------------------------------------------------------------ claims

\* the non-overlap blocks of a history entry
OwnBlocks(entry) == SelectSeq(entry.blocks, LAMBDA b : ~b.overlap)

\* the number of positions of cs whose parent_section_path is p
CountParent(cs, p) ==
    Cardinality({k \in 1..Len(cs) : cs[k].metadata.parent_section_path = p})

\* chunk a ranks at least as high as chunk b: quality_score, then token_count
RankGeq(a, b) ==
    \/ a.metadata.quality_score > b.metadata.quality_score
    \/ /\ a.metadata.quality_score = b.metadata.quality_score
       /\ a.token_count >= b.token_count

\* cs holds a chunk with the text of c
HasText(cs, c) == \E k \in 1..Len(cs) : cs[k].text = c.text

\* the count dropped_by_tag holds for tag t, 0 when the key is absent
TagCount(d, t) == IF t \in DOMAIN d THEN d[t] ELSE 0

\* C1: every chunk chunk() returns and every chunk filter_chunks returns has
\* token_count = TokenCounter.count(text) of its final text.
C1_TokenCountIsCountOfText ==
    /\ pc = "chunked" =>
         \A i \in 1..Len(chunks) : chunks[i].token_count = Count(chunks[i].text)
    /\ pc = "done" =>
         \A i \in 1..Len(out) : out[i].token_count = Count(out[i].text)

\* C2: the non-overlap blocks that went into a chunk (through the accumulator and
\* through the small-chunk merge) all have the parent_section_path recorded in
\* the chunk's metadata.
C2_OneParentPerChunk ==
    pc \in {"assemble", "chunked"} =>
        \A i \in 1..Len(flushed) :
            \A k \in 1..Len(OwnBlocks(flushed[i])) :
                OwnBlocks(flushed[i])[k].parent_section_path
                    = chunks[i].metadata.parent_section_path

\* C3: every chunk chunk() returns has token_count <= max_tokens.
C3_TokenBounded ==
    pc = "chunked" =>
        \A i \in 1..Len(chunks) : chunks[i].token_count <= chunker.max_tokens

\* C4: the list chunk() returns and the list filter_chunks returns have
\* chunk[i].index = i (0-based) at every position.
C4_DenseIndices ==
    /\ pc = "chunked" => \A i \in 1..Len(chunks) : chunks[i].index = i - 1
    /\ pc = "done" => \A i \in 1..Len(out) : out[i].index = i - 1

\* C4 witness: filter_chunks has returned two or more chunks after dropping a
\* chunk that stood before a kept one.
C4_Witness ==
    /\ pc = "done"
    /\ fcfg.enabled
    /\ Len(out) >= 2
    /\ \E k \in 1..Len(kept) : kept[k].index # k - 1

\* C5 as claimed: a returned chunk below min_tokens is the only returned chunk
\* with its parent_section_path.
C5_SmallChunkIsAlone ==
    pc = "chunked" =>
        \A i \in 1..Len(chunks) :
            chunks[i].token_count < chunker.min_tokens =>
                CountParent(chunks, chunks[i].metadata.parent_section_path) = 1

\* C5 amended: a returned chunk below min_tokens is never immediately preceded
\* by a returned chunk of the same parent_section_path.
C5_SmallChunkStartsItsRun ==
    pc = "chunked" =>
        \A i \in 2..Len(chunks) :
            chunks[i].token_count < chunker.min_tokens =>
                chunks[i - 1].metadata.parent_section_path
                    # chunks[i].metadata.parent_section_path

\* C5 witness: chunk() returned a chunk below min_tokens in a parent section
\* of several chunks, one of them joined by the small-chunk merge.
C5_Witness ==
    /\ pc = "chunked"
    /\ \E i \in 1..Len(chunks) :
        /\ chunks[i].token_count < chunker.min_tokens
        /\ CountParent(chunks, chunks[i].metadata.parent_section_path) >= 2
    /\ \E j \in 1..Len(flushed) : flushed[j].joined >= 2

\* C6 as claimed: of two chunks of the per-chunk pass with the same trimmed text
\* the earlier is not tagged duplicate and is kept, the later is tagged duplicate
\* and dropped, and dropped_by_tag counts each duplicate once.
C6_FirstSurvivesSecondDropped ==
    /\ \A i \in 1..Len(tagged) : \A j \in 1..Len(tagged) :
        (i < j /\ Strip(tagged[i].chunk.text) = Strip(tagged[j].chunk.text)) =>
            /\ "duplicate" \notin tagged[i].tags
            /\ ~tagged[i].dropped
            /\ "duplicate" \in tagged[j].tags
            /\ tagged[j].dropped
    /\ TagCount(dropped_by_tag, "duplicate")
         = Cardinality({j \in 1..Len(tagged) : "duplicate" \in tagged[j].tags})

\* C6 amended: a chunk of the per-chunk pass is tagged duplicate exactly when an
\* earlier chunk of the pass with the same trimmed text was kept by the pass (so
\* the first chunk with a text is never tagged duplicate, and of the chunks with
\* one text at most one is kept); a chunk tagged duplicate is dropped, and
\* dropped_by_tag counts each duplicate once.
C6_DuplicateOfKept ==
    /\ \A j \in 1..Len(tagged) :
        /\ "duplicate" \in tagged[j].tags <=>
             \E i \in 1..(j - 1) :
                /\ Strip(tagged[i].chunk.text) = Strip(tagged[j].chunk.text)
                /\ ~tagged[i].dropped
        /\ "duplicate" \in tagged[j].tags => tagged[j].dropped
    /\ TagCount(dropped_by_tag, "duplicate")
         = Cardinality({j \in 1..Len(tagged) : "duplicate" \in tagged[j].tags})

\* C6 witness: the pass kept a chunk and dropped a later one with the same
\* trimmed text as a duplicate.
C6_Witness ==
    \E i \in 1..Len(tagged) : \E j \in 1..Len(tagged) :
        /\ i < j
        /\ Strip(tagged[i].chunk.text) = Strip(tagged[j].chunk.text)
        /\ ~tagged[i].dropped
        /\ "duplicate" \in tagged[j].tags
        /\ tagged[j].dropped

\* the parent section paths of the chunks of cs
ParentsOf(cs) == {cs[k].metadata.parent_section_path : k \in 1..Len(cs)}

\* C7: after the per-parent cap a parent group keeps min(its size, max_chunks_per_parent)
\* chunks and the excess is counted under cap_parent; the returned list has at
\* most max_chunks_per_parent chunks per parent and max_chunks_per_doc chunks in
\* all, and the excess of the document cap is counted under cap_doc.
C7_CapsBoundTheOutput ==
    /\ pc \in {"cap_doc", "done"} =>
        /\ \A p \in ParentsOf(kept) :
            CountParent(capped, p) = Min(CountParent(kept, p), fcfg.max_chunks_per_parent)
        /\ TagCount(dropped_by_tag, "cap_parent") = Len(kept) - Len(capped)
        /\ "cap_parent" \in DOMAIN dropped_by_tag <=> Len(capped) < Len(kept)
    /\ (pc = "done" /\ fcfg.enabled) =>
        /\ Len(out) <= fcfg.max_chunks_per_doc
        /\ \A p \in ParentsOf(out) : CountParent(out, p) <= fcfg.max_chunks_per_parent
        /\ TagCount(stats.dropped_by_tag, "cap_doc") = Len(capped) - Len(out)
        /\ TagCount(stats.dropped_by_tag, "cap_parent") = Len(kept) - Len(capped)

\* C7 witness: filter_chunks returned after both caps removed chunks.
C7_Witness ==
    /\ pc = "done"
    /\ fcfg.enabled
    /\ TagCount(stats.dropped_by_tag, "cap_parent") >= 1
    /\ TagCount(stats.dropped_by_tag, "cap_doc") >= 1

\* C8: under either cap every retained chunk ranks at least as high (quality_score,
\* then token_count) as every chunk removed from the same capped set.
C8_CapsKeepTheBest ==
    /\ pc \in {"cap_doc", "done"} =>
        \A r \in 1..Len(capped) : \A x \in 1..Len(kept) :
            (/\ ~HasText(capped, kept[x])
             /\ kept[x].metadata.parent_section_path
                  = capped[r].metadata.parent_section_path)
            => RankGeq(capped[r], kept[x])
    /\ (pc = "done" /\ fcfg.enabled) =>
        \A r \in 1..Len(out) : \A x \in 1..Len(capped) :
            ~HasText(out, capped[x]) => RankGeq(out[r], capped[x])

\* C8 witness: the per-parent cap removed a chunk that stood before a retained
\* chunk of strictly higher rank, and the document cap removed a chunk too.
C8_Witness ==
    /\ pc = "done"
    /\ fcfg.enabled
    /\ \E r \in 1..Len(kept) : \E x \in 1..Len(kept) :
        /\ x < r
        /\ HasText(capped, kept[r])
        /\ ~HasText(capped, kept[x])
        /\ kept[x].metadata.parent_section_path = kept[r].metadata.parent_section_path
        /\ ~RankGeq(kept[x], kept[r])
    /\ \E x \in 1..Len(capped) : ~HasText(out, capped[x])

\* C9: the per-chunk pass keeps exactly the chunks whose tags hold none of
\* duplicate, front_matter, boilerplate, image_only, in order; a chunk tagged
\* low_signal alone is kept.
C9_DropRule ==
    LET passed == SelectSeq(tagged, LAMBDA e :
                     e.tags \cap {"duplicate", "front_matter", "boilerplate", "image_only"} = {})
    IN  /\ Len(kept) = Len(passed)
        /\ \A k \in 1..Len(kept) :
            /\ kept[k].text = passed[k].chunk.text
            /\ kept[k].index = passed[k].chunk.index
        /\ \A j \in 1..Len(tagged) :
            tagged[j].tags = {"low_signal"} => HasText(kept, tagged[j].chunk)

\* C9 witness: the pass has kept a chunk tagged low_signal alone and dropped
\* another chunk.
C9_Witness ==
    /\ \E j \in 1..Len(tagged) :
        tagged[j].tags = {"low_signal"} /\ HasText(kept, tagged[j].chunk)
    /\ \E j \in 1..Len(tagged) :
        "low_signal" \in tagged[j].tags /\ ~HasText(kept, tagged[j].chunk)

\* C10: with cfg.enabled false filter_chunks returns its input list as it is (no
\* tags, no quality_score) and statistics total_in = total_out = len(input),
\* dropped = 0, dropped_by_tag empty.
C10_DisabledIsIdentity ==
    (pc = "done" /\ ~fcfg.enabled) =>
        /\ out = chunks
        /\ \A i \in 1..Len(out) :
            DOMAIN out[i].metadata \cap {"tags", "quality_score", "merged_heading"} = {}
        /\ stats.total_in = Len(chunks)
        /\ stats.total_out = Len(chunks)
        /\ stats.dropped = 0
        /\ DOMAIN stats.dropped_by_tag = {}

\* C10 witness: the disabled filter returned a list the enabled filter would
\* have changed (a heading-only chunk before a chunk of its parent section).
C10_Witness ==
    /\ pc = "done"
    /\ ~fcfg.enabled
    /\ Len(chunks) >= 2
    /\ MergeHeadingWithNext(chunks) # chunks

\* C11: a TokenAwareChunker is never constructed, and chunk() never run, with
\* max_tokens < min_tokens.
C11_BadConfigRejected ==
    pc \in {"start", "assemble", "chunked"} => chunker.max_tokens >= chunker.min_tokens

OnlySpace(s) == \A k \in 1..Len(s) : IsSpace(Char(s, k))

\* C13: on an empty or whitespace-only extracted Markdown normalize_markdown and
\* cleanup_markdown return the empty string, chunk() returns the empty list, and
\* filter_chunks returns the empty list with total_in = total_out = dropped = 0.
C13_EmptyInEmptyOut ==
    OnlySpace(raw) =>
        /\ \A k \in 1..Len(trail) : trail[k].ret = ""
        /\ pc = "chunked" => chunks = <<>>
        /\ pc = "done" =>
            /\ chunks = <<>>
            /\ out = <<>>
            /\ stats.total_in = 0
            /\ stats.total_out = 0
            /\ stats.dropped = 0
            /\ DOMAIN stats.dropped_by_tag = {}

\* C13 witness: the job has run every stage on a whitespace-only Markdown, the
\* filter enabled.
C13_Witness ==
    /\ pc = "done"
    /\ raw # ""
    /\ OnlySpace(raw)
    /\ Len(trail) = 2
    /\ fcfg.enabled

\* the last call on the trail
LastCall == trail[Len(trail)]

\* the trimmed texts of the candidate lines that occur RepeatThreshold times or more
Boilerplate(lines) ==
    LET trimmed == [k \in 1..Len(lines) |-> Strip(lines[k])]
    IN  {trimmed[k] : k \in {j \in 1..Len(lines) :
            /\ IsCandidate(lines[j])
            /\ Cardinality({i \in 1..Len(lines) : trimmed[i] = trimmed[j]}) >= 6}}

\* the lines but those whose trimmed text is boilerplate
NotBoilerplate(lines) ==
    LET boilerplate == Boilerplate(lines)
    IN  SelectSeq(lines, LAMBDA ln : Strip(ln) \notin boilerplate)

\* the trimmed texts of the lines that are not blank, in order
TrimmedLines(lines) == StripNonEmpty(lines)

\* C15 as stated: the lines of cleanup_markdown's result are the lines of its
\* input but those whose trimmed text is a candidate occurring 6 times or more, no
\* other line deleted; with no such candidate the result is the input with its
\* leading and trailing whitespace trimmed.
C15_OnlyBoilerplateDeleted ==
    pc = "front_cleaned" =>
        LET lines == SplitLines(LastCall.arg) IN
        /\ Boilerplate(lines) # {} =>
              LastCall.ret = Strip(Join(NotBoilerplate(lines), "\n"))
        /\ Boilerplate(lines) = {} => LastCall.ret = Strip(LastCall.arg)

\* C15 amended: the non-blank lines of cleanup_markdown's result are, trimmed
\* and in order, the non-blank lines of its input but those whose trimmed text is
\* a candidate occurring 6 times or more (so a candidate occurring 5 times or
\* fewer is kept everywhere); blank lines may go, since runs of three or more
\* newlines left by the deletion are collapsed; with no such candidate the
\* result is the input with every "\r\n" replaced by "\n" and its leading and
\* trailing whitespace trimmed.
C15_OnlyBoilerplateTextDeleted ==
    pc = "front_cleaned" =>
        LET lines == SplitLines(LastCall.arg) IN
        /\ TrimmedLines(SplitLines(LastCall.ret)) = TrimmedLines(NotBoilerplate(lines))
        /\ ~Contains(LastCall.ret, "\n\n\n") \/ Boilerplate(lines) = {}
        /\ Boilerplate(lines) = {} =>
              LastCall.ret = Strip(ReplaceAll(LastCall.arg, "\r\n", "\n"))

\* C15 witness: cleanup_markdown has deleted a text that occurred 6 times and
\* kept one that occurred 5 times or fewer and a non-candidate that occurred 6
\* times.
C15_Witness ==
    /\ pc = "front_cleaned"
    /\ LET lines == SplitLines(LastCall.arg) IN
       /\ Boilerplate(lines) = {"abc"}
       /\ \E k \in 1..Len(lines) : Strip(lines[k]) = "xyz"
       /\ Cardinality({k \in 1..Len(lines) : lines[k] = "ab"}) >= 6
    /\ Contains(LastCall.ret, "xyz")
    /\ Contains(LastCall.ret, "ab\nab\nab\nab\nab\nab")

\* C16: normalize_markdown applied to its own output returns that output.
C16_NormalizeIdempotent ==
    pc = "front_renormalized" => trail[2].ret = trail[1].ret

\* the paragraphs of a text: what stands between runs of two or more newlines
ParagraphsOf(s) == SplitParasFrom(s, 1, <<>>)

\* C17: the output of normalize_markdown has no run of three or more newlines,
\* and none of its paragraphs equals the paragraph just before it.
C17_NoBlankRunNoRepeat ==
    (pc \in {"front_normalized", "front_renormalized"}) =>
        /\ ~Contains(LastCall.ret, "\n\n\n")
        /\ LET ps == ParagraphsOf(LastCall.ret) IN
           \A k \in 1..(Len(ps) - 1) : ps[k] # ps[k + 1]

\* C17 witness: normalize_markdown has returned a text of two paragraphs or more
\* for an input with a run of three newlines and a paragraph repeated at once.
C17_Witness ==
    /\ pc = "front_normalized"
    /\ Contains(raw, "\n\n\n")
    /\ \E k \in 1..(Len(ParagraphsOf(raw)) - 1) :
          /\ Strip(ParagraphsOf(raw)[k]) # ""
          /\ Strip(ParagraphsOf(raw)[k]) = Strip(ParagraphsOf(raw)[k + 1])
    /\ Len(ParagraphsOf(md)) >= 2

RECURSIVE NonSpaceFrom(_, _)
NonSpaceFrom(s, i) ==
    LET a == FirstNonSpace(s, i)
        b == FirstWhere(s, a, LAMBDA t, k : IsSpace(Char(t, k)))
    IN  IF a > Len(s) THEN "" ELSE SubSeq(s, a, b - 1) \o NonSpaceFrom(s, b)

\* the characters of a text that are not whitespace, in order
NonSpace(s) == NonSpaceFrom(s, 1)

RECURSIVE LaidOut(_, _, _)
\* from position i on, the text is the pieces in order with whitespace, and
\* nothing else, before, between and after them
LaidOut(s, i, pieces) ==
    LET j == FirstNonSpace(s, i) IN
    IF pieces = <<>> THEN j > Len(s)
    ELSE /\ SubSeq(s, j, Min(Len(s), j + Len(pieces[1]) - 1)) = pieces[1]
         /\ LaidOut(s, j + Len(pieces[1]), Tail(pieces))

\* C14 as stated: the pieces of an oversized block are non-empty, of max_tokens
\* tokens at most, and the block is its pieces in order with whitespace, removed
\* at the piece boundaries, between them.
C14_PiecesLaidOutInBlock ==
    (pc = "expanded" /\ Count(call[1].block) > call[1].max_tokens) =>
        LET pieces == result[1] IN
        /\ \A k \in 1..Len(pieces) :
              pieces[k] # "" /\ Count(pieces[k]) <= call[1].max_tokens
        /\ LaidOut(call[1].block, 1, pieces)

\* C14 amended: the pieces of an oversized block (max_tokens at least 1) are
\* non-empty, of max_tokens tokens at most, and their concatenation has the
\* non-whitespace characters of the block, each once and in order; whitespace is
\* removed at the piece boundaries and, inside a piece made of several
\* sentences, the whitespace between two sentences is one space.
C14_PiecesKeepNonSpace ==
    (pc = "expanded" /\ Count(call[1].block) > call[1].max_tokens) =>
        LET pieces == result[1] IN
        /\ \A k \in 1..Len(pieces) :
              /\ pieces[k] # ""
              /\ pieces[k] = Strip(pieces[k])
              /\ Count(pieces[k]) <= call[1].max_tokens
        /\ NonSpace(Join(pieces, "")) = NonSpace(call[1].block)

\* C14 witness: an oversized block of several paragraphs has been split into
\* pieces of which one is a full window of max_tokens * 4 characters and one is
\* two sentences joined.
C14_Witness ==
    /\ pc = "expanded"
    /\ Count(call[1].block) > call[1].max_tokens
    /\ Contains(call[1].block, "\n\n")
    /\ \E k \in 1..Len(result[1]) : Len(result[1][k]) = call[1].max_tokens * 4
    /\ \E k \in 1..Len(result[1]) : Contains(result[1][k], ". ")
    /\ Len(result[1]) >= 3

\* the penalty of each tag, in hundredths
Penalty ==
    [t \in ScoreTags |->
        IF t = "front_matter" THEN 70
        ELSE IF t = "boilerplate" THEN 60
        ELSE IF t = "image_only" THEN 70
        ELSE IF t = "duplicate" THEN 100
        ELSE 30]

RECURSIVE PenaltySum(_)
PenaltySum(ts) ==
    IF ts = {} THEN 0
    ELSE LET t == CHOOSE x \in ts : TRUE IN Penalty[t] + PenaltySum(ts \ {t})

\* C19: the quality score, in hundredths and in exact arithmetic, lies in
\* 0..100 and is 100 minus the penalties of the tags present, plus 5 from 200
\* tokens on, clamped to 0..100; an untagged chunk scores 100 whatever its token
\* count and a duplicate-tagged chunk 5 at most.
C19_ScoreIsClampedSum ==
    pc = "scored" =>
        LET n == call[1].token_count
            ts == call[1].tags
            exact == 100 - PenaltySum(ts) + (IF n >= 200 THEN 5 ELSE 0)
        IN  /\ result[1] \in 0..100
            /\ result[1] = (IF exact < 0 THEN 0 ELSE IF exact > 100 THEN 100 ELSE exact)
            /\ ts = {} => result[1] = 100
            /\ "duplicate" \in ts => result[1] <= 5

\* C19 witness: a duplicate-tagged chunk of 200 tokens has been scored 5, the
\* bonus being all that is left of its score.
C19_Witness ==
    /\ pc = "scored"
    /\ call[1].tags = {"duplicate"}
    /\ call[1].token_count = 200
    /\ result[1] = 5

\* the levels of a heading stack grow strictly from bottom to top
StrictlyDeeper(stack) == \A k \in 1..(Len(stack) - 1) : stack[k].level < stack[k + 1].level

\* the ' > '-join of the titles of a heading stack, no path for the empty stack
PathOf(stack) ==
    IF stack = <<>> THEN None
    ELSE Join([k \in 1..Len(stack) |-> stack[k].title], " > ")

\* a line "#...# title" of one to three hashes, as the documents here have them
HashesOf(line) ==
    IF StartsWith(line, "### ") THEN 3
    ELSE IF StartsWith(line, "## ") THEN 2
    ELSE IF StartsWith(line, "# ") THEN 1
    ELSE 0

\* C20: every step of the block parser keeps the heading stack's levels strictly
\* increasing; a heading of level L pops the entries of level L or more and pushes
\* (L, title), which is then the top; every block the step emits has the
\* ' > '-join of the stack titles at its position as section_path, a heading
\* block that of the stack with itself pushed, a block before any heading none.
C20_StackDiscipline ==
    [][pc = "parsing" =>
        LET st == scan.stack
            st1 == scan'.stack
            new == SubSeq(scan'.blocks, Len(scan.blocks) + 1, Len(scan'.blocks))
            line == IF scan.i <= Len(text_lines) THEN text_lines[scan.i] ELSE ""
            L == HashesOf(line)
        IN  /\ StrictlyDeeper(st1)
            /\ SubSeq(scan'.blocks, 1, Len(scan.blocks)) = scan.blocks
            /\ IF L > 0
               THEN /\ st1 = Append(SelectSeq(st, LAMBDA e : e.level < L),
                                    [level |-> L, title |-> SubSeq(line, L + 2, Len(line))])
                    /\ new # <<>>
                    /\ new[Len(new)].block_type = "heading"
                    /\ new[Len(new)].text = line
               ELSE st1 = st
            /\ \A k \in 1..Len(new) :
                  new[k].section_path =
                      (IF new[k].block_type = "heading" THEN PathOf(st1) ELSE PathOf(st))
    ]_vars

\* C20 witness: the parser has read a level-2 heading under "A > B > C" and
\* emitted its block with the path "A > D", two entries popped.
C20_Witness ==
    /\ pc = "parsing"
    /\ Len(scan.blocks) = 4
    /\ scan.blocks[3].section_path = "A > B > C"
    /\ scan.blocks[4].section_path = "A > D"
    /\ Len(scan.stack) = 2
    /\ scan.stack[2] = [level |-> 2, title |-> "D"]

\* C18: of the payloads of a file of total N, with the orders 0..N-1 arriving
\* in any permutation, every add_batch before the N-th returns None, and the
\* N-th returns the FileConfig parsed from the pieces concatenated in ascending
\* order, that is from the file's text (None when that text is no FileConfig).
C18_ReassembledByOrder ==
    pc = "serving" =>
        \A f \in FileIDs :
            \A k \in 1..Len(returned[f]) :
                /\ k < uploads[f].total => returned[f][k] = <<>>
                /\ k = uploads[f].total =>
                      returned[f][k] = (IF uploads[f].text = ConfigJson(f)
                                        THEN <<[fileID |-> f]>> ELSE <<>>)

\* C18 witness: the three payloads of a file have arrived in the order 2, 0, 1,
\* among payloads of the other file, and the third add_batch has returned the
\* file's FileConfig.
C18_Witness ==
    /\ pc = "serving"
    /\ uploads["f1"].total = 3
    /\ delivered["f1"] = <<2, 0, 1>>
    /\ returned["f1"] = <<<<>>, <<>>, <<[fileID |-> "f1"]>>>>
    /\ Len(delivered["f2"]) = 1
    /\ "f1" \notin DOMAIN batches

\* the heading blocks among the first k blocks
HeadingsUpTo(bs, k) == SelectSeq(SubSeq(bs, 1, k), LAMBDA b : b.block_type = "heading")

\* the headings of hs that are open after the last of them: no later heading
\* of hs has their level or a higher one (a smaller number)
OpenHeadings(hs) ==
    LET open(j) == \A m \in (j + 1)..Len(hs) : hs[m].heading_level > hs[j].heading_level
        F[j \in 0..Len(hs)] ==
            IF j = 0 THEN <<>> ELSE IF open(j) THEN Append(F[j - 1], hs[j]) ELSE F[j - 1]
    IN  F[Len(hs)]

\* C21 (as stated): a block's parent_section_path is the " > "-join of the open
\* headings of level <= parent_section_level; while no heading of such a level
\* has appeared, it is the title of the first heading seen in the document, so
\* it stays the same across successive deeper headings
C21_FallsBackToFirstHeading ==
    \A k \in 1..Len(scan.blocks) :
        LET b == scan.blocks[k]
            hs == HeadingsUpTo(scan.blocks, k)
            psl == chunker.parent_section_level
            qualifying == SelectSeq(OpenHeadings(hs), LAMBDA h : h.heading_level <= psl)
        IN  /\ hs = <<>> => b.parent_section_path = None
            /\ qualifying # <<>> =>
                   b.parent_section_path
                       = Join([j \in 1..Len(qualifying) |-> HeadingTitle(qualifying[j].text)],
                              " > ")
            /\ hs # <<>> /\ qualifying = <<>> =>
                   b.parent_section_path = HeadingTitle(hs[1].text)

\* no value occurs twice in xs
NoRepeat(xs) == \A i, j \in 1..Len(xs) : xs[i] = xs[j] => i = j

\* where x occurs first in ys
FirstAt(ys, x) == CHOOSE i \in 1..Len(ys) : ys[i] = x /\ \A j \in 1..(i - 1) : ys[j] # x

\* xs lists the values of ys once each, in the order they are first seen in ys
FirstSeenOrder(xs, ys) ==
    /\ NoRepeat(xs)
    /\ {xs[i] : i \in 1..Len(xs)} = {ys[i] : i \in 1..Len(ys)}
    /\ \A i, j \in 1..Len(xs) : i < j => FirstAt(ys, xs[i]) < FirstAt(ys, xs[j])

\* the section paths of the blocks bs, the blocks without one left out
SectionPathsOf(bs) ==
    LET with == SelectSeq(bs, LAMBDA b : Truthy(b.section_path))
    IN  [i \in 1..Len(with) |-> with[i].section_path]

\* the block types of the blocks bs
BlockTypesOf(bs) == [i \in 1..Len(bs) |-> bs[i].block_type]

\* C22 (as stated): in every chunk chunk() builds, section_paths and block_types
\* list the section paths and the block types of its blocks once each in
\* first-seen order, and primary_section_path is the first of section_paths
C22_OrderedUniqueMetadata ==
    pc \in {"assemble", "chunked"} =>
        \A k \in 1..Len(chunks) :
            LET m == chunks[k].metadata
            IN  /\ FirstSeenOrder(m.section_paths, SectionPathsOf(flushed[k].blocks))
                /\ FirstSeenOrder(m.block_types, BlockTypesOf(flushed[k].blocks))
                /\ m.primary_section_path
                       = IF m.section_paths = <<>> THEN None ELSE m.section_paths[1]

\* the block b opens a heading of level <= psl of the document
HeadingStart(b, psl) ==
    b.block_type = "heading" /\ HeadingLevel(b.text) \in 1..psl

\* C23 (as stated): at each block of the assembly loop, the new accumulator is
\* the overlap tail of the chunk just finished followed by the block exactly
\* when the block does not fit, overlap_tokens > 0 and that chunk's parent path
\* is the active one, and the running sum is then recounted from the seeded
\* accumulator; an accumulator that starts at a heading of level <=
\* parent_section_level, and every accumulator when overlap_tokens = 0, starts
\* with no overlap fragment
C23_OverlapOnlyInsideParent ==
    [][(pc = "assemble" /\ bi' = bi + 1) =>
        LET b == blocks[bi]
            psl == chunker.parent_section_level
            before == IF IsBoundary(b, psl) THEN 0 ELSE cur_tokens
            fits == before + b.token_count <= chunker.max_tokens
            last == chunks'[Len(chunks')]
            seeds == /\ ~fits
                     /\ chunker.overlap_tokens > 0
                     /\ last.metadata.parent_section_path = active_parent'
        IN  /\ seeds =>
                /\ Len(cur') = 2
                /\ cur'[1].overlap
                /\ Strip(cur'[1].text) = Strip(TailText(last.text, chunker.overlap_tokens))
                /\ cur'[2] = b
                /\ cur_tokens' = Count(Join(Texts(cur'), "\n\n"))
            /\ ~fits /\ ~seeds => cur' = <<b>>
            /\ fits => cur' = Append(IF IsBoundary(b, psl) THEN <<>> ELSE cur, b)
            /\ chunker.overlap_tokens = 0 => ~cur'[1].overlap
            /\ HeadingStart(b, psl) /\ Len(OwnBlocks([blocks |-> cur'])) = 1
                   => ~cur'[1].overlap]_vars

\* C24 (as stated): the heading merge has run when the assembly loop starts: no
\* heading block of the blocks chunk() assembles is immediately followed by a
\* block of the same parent section
C24_HeadingsMergedBeforeAssembly ==
    pc = "assemble" =>
        \A i \in 1..(Len(blocks) - 1) :
            blocks[i].block_type = "heading" =>
                blocks[i].parent_section_path # blocks[i + 1].parent_section_path

\* the line opens a code fence where the while loop meets it
OpensFence(line) == HeadingLevel(line) = 0 /\ Strip(line) # "[IMAGE]" /\ IsFence(Strip(line))

\* the last line of the fence opened at line i: the first later line that
\* starts with the opening line's three-character marker, else the last line
ClosingLine(lines, i) ==
    LET fence == SubSeq(Strip(lines[i]), 1, 3)
        closers == {j \in (i + 1)..Len(lines) : StartsWith(Strip(lines[j]), fence)}
    IN  IF closers = {} THEN Len(lines)
        ELSE CHOOSE j \in closers : \A k \in closers : j <= k

\* C25: an iteration of the parser that meets an opening fence appends one code
\* block of the lines from the fence through its closing line (the end of the
\* input when there is none), moves past them and leaves the heading stack as
\* it is, so the lines inside make no block of their own; and the parser comes
\* to its end on every input, an unterminated fence included: each iteration
\* moves forward and never past the end of the lines
C25_FenceIsOneBlock ==
    [][(pc = "parsing" /\ scan.i <= Len(text_lines)) =>
        /\ scan'.i > scan.i
        /\ scan'.i <= Len(text_lines) + 1
        /\ pc' = "parsing"
        /\ OpensFence(text_lines[scan.i]) =>
            LET last == ClosingLine(text_lines, scan.i)
                code == scan'.blocks[Len(scan'.blocks)]
                before == SubSeq(scan'.blocks, 1, Len(scan'.blocks) - 1)
            IN  /\ scan'.i = last + 1
                /\ scan'.stack = scan.stack
                /\ scan'.para = <<>>
                /\ code.block_type = "code"
                /\ code.text = Strip(Join(SubSeq(text_lines, scan.i, last), "\n"))
                /\ code.token_count = Count(code.text)
                /\ \/ before = scan.blocks
                   \/ /\ scan.para # <<>>
                      /\ Len(before) = Len(scan.blocks) + 1
                      /\ SubSeq(before, 1, Len(scan.blocks)) = scan.blocks
                      /\ before[Len(before)].block_type = "text"]_vars

\* an unterminated fence with a heading and an image marker inside has been
\* parsed into a single code block, the heading stack still empty
C25_Witness ==
    /\ pc = "parsed"
    /\ text_lines = <<"~~~", "# A", "^^^", "[IMAGE]">>
    /\ Len(scan.blocks) = 1
    /\ scan.blocks[1].block_type = "code"
    /\ scan.stack = <<>>

\* C26 (as stated): count(text) is 0 for the empty text and max(1, len(text) div 4)
\* for any other; tail_text(text, n) is the suffix of the last min(len(text), 4n)
\* characters of text, the empty string for n = 0
C26_CountAndTail ==
    pc = "counted" =>
        LET t == call[1].text
            n == call[1].tail_tokens
            k == Min(Len(t), 4 * n)
        IN  IF result[1].fn = "count"
            THEN result[1].value = (IF t = "" THEN 0 ELSE Max(1, Len(t) \div 4))
            ELSE result[1].value = SubSeq(t, Len(t) - k + 1, Len(t))

\* the texts of the blocks that make up chunk k, the overlap fragment left out,
\* one after the other
OwnText(k) == Join(Texts(OwnBlocks(flushed[k])), "")

\* the same for all chunks, in the order of the chunks
AllOwnText == Join([k \in 1..Len(flushed) |-> OwnText(k)], "")

FirstWithText(cs, t) ==
    CHOOSE i \in 1..Len(cs) : cs[i].text = t /\ \A j \in 1..(i - 1) : cs[j].text # t

\* C28 (as stated): the chunks filter_chunks returns stand in the order they
\* have in the list it filters, capped or not
C28_OutputInDocumentOrder ==
    pc = "done" /\ fcfg.enabled =>
        \A i, j \in 1..Len(out) :
            i < j => FirstWithText(fchunks, out[i].text) < FirstWithText(fchunks, out[j].text)

RECURSIVE SumOver(_, _)
\* the sum of the counts d holds for the tags ts
SumOver(d, ts) ==
    IF ts = {} THEN 0
    ELSE LET t == CHOOSE x \in ts : TRUE
         IN  d[t] + SumOver(d, ts \ {t})

\* C29 (as stated): of the statistics filter_chunks returns, total_in is the
\* number of chunks it was given, total_out the number it returns, dropped
\* their difference, and the counts of dropped_by_tag add up to dropped
C29_StatsConsistent ==
    pc = "done" =>
        /\ stats.total_in = Len(chunks)
        /\ stats.total_out = Len(out)
        /\ stats.dropped = stats.total_in - stats.total_out
        /\ SumOver(stats.dropped_by_tag, DOMAIN stats.dropped_by_tag) = stats.dropped

\* C30 (as stated): once add_batch has received every order of a file, that
\* file has no entry in BatchManager.batches, whether its reassembled text is a
\* FileConfig or not
C30_NoFinishedBatchKept ==
    pc = "serving" =>
        \A f \in FileIDs :
            Len(delivered[f]) = uploads[f].total => f \notin DOMAIN batches
====
